---- MODULE Spec2Model ----
(***************************************************************************)
(* A model of the gum activity recorder: the dispatch engine of            *)
(* record/gum/gum.py (fan-in loop, semaphore gate) and the Screen observer *)
(* of record/gum/observers/base/screen.py (scroll session filter,          *)
(* click/scroll pipeline).                                                 *)
(*                                                                         *)
(* The engine runs on one asyncio event loop.  The loop's ready queue is   *)
(* modelled as the FIFO sequence runq: only its head runs, and a task runs *)
(* without interruption up to its next suspension point.  Events from      *)
(* outside the loop (an observer emitting, a handler body's I/O            *)
(* finishing) append a task to runq.                                       *)
(***************************************************************************)
EXTENDS Integers, Sequences, FiniteSets, TLC

\* ------------------------------------------------------------------ bounds
\* Number of observers registered with the engine.
NumObservers == 2
\* Number of Updates the observers emit in one run.
MaxUpdates == 2
\* max_concurrent_updates is drawn from 1..MaxPermits.
MaxPermits == 2

\* The clock stops at MaxTime ticks.
MaxTime == 52
\* _scroll_event_count is followed up to MaxScrollCount.
MaxScrollCount == 11

\* Number of click and scroll events delivered to one Screen observer.
MaxEvents == 2

\* Number of key events delivered to one Screen observer.
MaxKeys == 3

\* Number of listeners a backend creates, and number of Screen.stop calls.
MaxStarts == 2
MaxStops == 2

\* Number of Observations the store is followed up to.
MaxStored == 2
\* Number of candidate scripts of a browser.
MaxScripts == 3
\* Number of recordings BackgroundRecorder.start begins.
MaxRecordings == 2

Observers == 1..NumObservers
UpdateIds == 1..MaxUpdates
EventIds == 1..MaxEvents
KeyIds == 1..MaxKeys

\* ------------------------------------------------------------- constants
\* time.time() counts seconds; the model counts ticks of 50 ms.
TicksPerSecond == 20
\* observers/constants.py, in ticks, pixels and events per second.
SCROLL_DEBOUNCE_SEC_DEFAULT == 10
SCROLL_MIN_DISTANCE_DEFAULT == 5
SCROLL_MAX_FREQUENCY_DEFAULT == 10
SCROLL_SESSION_TIMEOUT_DEFAULT == 40
\* Python's None for a time, and for a position.
None == -1
NoPosition == <<None, None>>

\* Clock advances between two scroll samples: none, 0.1 s, 0.3 s, 0.5 s, 2.1 s.
TimeSteps == {0, 2, 6, 10, 42}
\* Pointer positions of scroll samples.  (100,100)-(102,101) are less than 5 px
\* apart, (100,100)-(103,104) exactly 5 px.
ScrollPoints == {<<100, 100>>, <<102, 101>>, <<103, 104>>}
\* capture.monitors[_MON_START:]: two monitors side by side.
Mons == << [left |-> 0, top |-> 0, width |-> 200, height |-> 200],
           [left |-> 200, top |-> 0, width |-> 200, height |-> 200] >>
MonIds == 1..Len(Mons)
\* Pointer positions of clicks: on monitor 1, on monitor 2, on no monitor.
ClickPoints == {<<100, 100>>, <<250, 50>>, <<500, 50>>}
\* Scroll deltas (dx, dy) in tenths: (0.3, 0.4) has magnitude 0.5, (0, 1.0) has 1.0.
ScrollDeltas == {<<3, 4>>, <<0, 10>>}
\* The magnitude below which scroll_event drops a sample: 1.0, in tenths.
SCROLL_MIN_MAGNITUDE == 10
\* Pointer positions of the scroll events of a Screen observer.
ScreenScrollPoints == {<<100, 100>>, <<103, 104>>}
\* Clock advances between two scroll events of a Screen observer: 0.3 s, 2.1 s.
ScreenTimeSteps == {6, 42}
\* Values of --scroll-debounce: none, 0.1 s (with the default maximum frequency of
\* 10/s the shortest for which debounce x frequency >= 1), and the default.
SCROLL_DEBOUNCE_TENTH == 2
ScrollDebounces == {0, SCROLL_DEBOUNCE_TENTH, SCROLL_DEBOUNCE_SEC_DEFAULT}
\* observers/constants.py, in ticks: the key session timeout (2.0 s) and the
\* interval between two screenshots of a key burst (0.25 s).
KEYBOARD_TIMEOUT_DEFAULT == 40
KEYBOARD_SAMPLE_INTERVAL_DEFAULT == 5
\* Clock advances before a key event reads the clock: 0.1 s, 0.2 s, 0.3 s.
KeyTimeSteps == {2, 4, 6}
\* Clock advances before an expiry check reads the clock: none, 1.9 s, 2.1 s.
CheckTimeSteps == {0, 38, 42}
\* mouse.Controller().position when a key arrives: on monitor 2, on no monitor.
KeyPoints == {<<250, 50>>, <<500, 50>>}
\* The holder of _key_activity_lock when the capture loop has it.
LoopHolder == MaxKeys + 1
\* Python's None for an optional string.
PyNone == "None"
\* Update.app_name and Update.browser_url: absent, empty, set.
UpdateAppNames == {PyNone, "", "Safari"}
UpdateUrls == {PyNone, "", "https://example.com"}
\* Update.content with its content_type.
UpdateContents == {<<"key_press", "input_text">>, <<"click@mon1(10.0, 20.0)", "input_text">>}
\* What the inspector would return: the frontmost app name, the URL for that app
\* and the URL for any other app.
Inspectors ==
  [front : {PyNone, "", "Arc"}, front_url : {PyNone, "https://arc.net"},
   other_url : {"https://other.example"}]

VARIABLES
  \* ---- dispatch engine (gum.py)
  max_concurrent_updates, \* capacity of _update_sem
  loop_task,              \* _loop_task: "none" | "ready" | "waiting" (in asyncio.wait) |
                          \* "notified" (asyncio.wait's completion callback is scheduled)
  round,                  \* iteration of _update_loop (0: not entered yet)
  update_queue,           \* per observer: the Updates in its update_queue
  q_getters,              \* per observer: get() tasks waiting on the queue (FIFO), by round
  got,                    \* finished get() tasks not yet read: <<observer, round, update>>
  runq,                   \* the event loop's ready queue
  upd_src,                \* per Update: its observer (0: not emitted yet)
  h_state,                \* per Update: state of its _run_with_gate task
  spawned,                \* per Update: number of _run_with_gate tasks created for it
  sem_value,              \* _update_sem._value
  sem_waiters,            \* _update_sem._waiters (FIFO)
  \* ---- engine shutdown (gum.__aexit__)
  aexit,                  \* position of __aexit__: "no", "await_loop", "gather",
                          \* "stop_observers", "exited", "raised"
  cancel_requested,       \* _loop_task.cancel() was called and not yet delivered
  gathered,               \* the handling tasks passed to asyncio.gather
  stopped,                \* the observers whose stop() was awaited, in order
  observers,              \* self.observers: the observers the engine was built with
  \* ---- engine startup (gum.__aenter__)
  aenter,                 \* the call of __aenter__: its inputs, the steps it took, and
                          \* how it ended
  tick_grabs,             \* per monitor, its grab in the current tick of the capture
                          \* loop: "none" (not yet tried), "ok", "failed"
  \* ---- the capture loop's exit
  self_running,           \* self._running, which the capture loop tests before a tick
  stop_ev,                \* the stop-time flush_pending: its event and how it ended;
                          \* the stop-time cleanup: whether the finally block found
                          \* it due, whether it renamed, and the list it found
  stop_log,               \* the steps of the loop's exit taken so far, in order
  \* ---- input backends and Screen.stop
  backends,               \* per input backend: whether _listener is set, and the
                          \* number of listeners created and of listeners running
  screen_stop,            \* the calls of Screen.stop: their number, how the last one
                          \* ended, and whether it changed anything
  thread_pool,            \* Screen._thread_pool: "open" or "shutdown"
  \* ---- macOS inspector
  last_browser_urls,      \* inspector.last_browser_urls: browser key -> URL
  browser_script_failures,\* browser keys whose scripts have failed on this inspector
  automation_cache,       \* _AUTOMATION_PERMISSION_CACHE: its value, and whether it
                          \* is set and within its TTL
  url_call,               \* the last call of get_browser_url
  perm_call,              \* the last call of check_automation_permission_granted
  script_call,            \* the last call of _run_browser_scripts with its candidate
                          \* scripts given one by one
  \* ---- background recorder (cli/background.py)
  cls_thread,             \* BackgroundRecorder._thread (0: None)
  cls_loop,               \* BackgroundRecorder._loop (0: None)
  cls_stop_event,         \* BackgroundRecorder._stop_event (0: None)
  cls_running,            \* BackgroundRecorder._running
  cls_screen,             \* BackgroundRecorder._screen (0: None)
  rec_main,               \* the controlling thread: "idle", or "joining" inside stop()
  rec_threads,            \* per recorder thread: where it is, the loop and the event
                          \* it read from the class, and whether its reset at exit
                          \* found another recording's thread registered
  rec_loops,              \* per event loop: "none", "new", "running", "idle", "closed"
  rec_events,             \* per asyncio.Event: whether it is set
  \* ---- handler body (gum._default_handler)
  h_call,                 \* the last call of _default_handler: observer, Update, what
                          \* the inspector would return, the inspector calls made,
                          \* and how the call ended
  h_store_len,            \* number of Observations added to the store
  h_added,                \* the Observations the last call added to the store
  \* ---- Screen observer (observers/base/screen.py)
  now,                    \* time.time(), in ticks
  scroll_debounce_sec,    \* _scroll_debounce_sec, in ticks
  scroll_min_distance,    \* _scroll_min_distance, in pixels
  scroll_max_frequency,   \* _scroll_max_frequency, in events per second
  scroll_session_timeout, \* _scroll_session_timeout, in ticks
  scroll_session_start,   \* _scroll_session_start (None: no session)
  scroll_event_count,     \* _scroll_event_count
  scroll_last_position,   \* _scroll_last_position
  scroll_last_time,       \* _scroll_last_time
  scroll_call,            \* the last call of _should_log_scroll: its arguments, the
                          \* session it found, the rule that decided and the result
  worker,                 \* _worker: "init" | "grab" | "check" (the key session expiry
                          \* check) | "lock_wait" | "final_save" | "sleep"
  worker_idx,             \* the monitor _worker's loop is grabbing
  frames,                 \* _frames: per monitor, whether a frame is cached
  guard_visible,          \* what _skip() returns: a guarded window is on screen
  pending_event,          \* _pending_event: the event in the slot (0: None)
  events,                 \* per click/scroll event: its mouse_event/scroll_event task
  screen_updates,         \* the Updates the observer has put on its update_queue
  \* ---- Screen observer, keyboard (key_token_event and the per-tick expiry check)
  key_activity_start,     \* _key_activity_start (None: no key session)
  key_screenshots,        \* _key_screenshots: the retained screenshots, oldest first
  last_key_screenshot_time, \* _last_key_screenshot_time
  last_key_position,      \* _last_key_position: <<x_local, y_local, idx>>
  key_lock,               \* _key_activity_lock: its holder (0: free, a key event, or
                          \* LoopHolder for the capture loop)
  key_lock_waiters,       \* _key_activity_lock._waiters (FIFO)
  keys,                   \* per key event: its key_token_event task
  key_updates,            \* the key Updates put on update_queue, by key event
  cleanup_tasks,          \* _cleanup_key_screenshots tasks created and not yet run
  to_delete,              \* files a cleanup is removing
  key_files,              \* the key screenshots on disk
  key_log,                \* every key screenshot taken, with what its handler saw
  key_last_event,         \* the clock reading of the last key event handled
  key_end,                \* how the last key session that had retained a screenshot
                          \* ended: closed by a tick, or replaced by a key event
  tick_time,              \* current_time of the capture loop's last expiry check
  key_collapse            \* the last collapse of _cleanup_key_screenshots: the list
                          \* it found and the list it left

engine_vars == <<max_concurrent_updates, loop_task, round, update_queue, q_getters,
                 got, runq, upd_src, h_state, spawned, sem_value, sem_waiters>>

scroll_params == <<scroll_debounce_sec, scroll_min_distance, scroll_max_frequency,
                   scroll_session_timeout>>
scroll_vars == <<scroll_session_start, scroll_event_count, scroll_last_position,
                 scroll_last_time, scroll_call>>

screen_vars == <<worker, worker_idx, frames, guard_visible, pending_event, events,
                 screen_updates>>

key_vars == <<key_activity_start, key_screenshots, last_key_screenshot_time,
              last_key_position, key_lock, key_lock_waiters, keys, key_updates,
              cleanup_tasks, to_delete, key_files, key_log, key_last_event, key_end,
              tick_time, key_collapse>>

handler_vars == <<h_call, h_store_len, h_added>>

inspector_vars == <<last_browser_urls, browser_script_failures, automation_cache, url_call,
                    perm_call, script_call>>

recorder_vars == <<cls_thread, cls_loop, cls_stop_event, cls_running, cls_screen, rec_main,
                   rec_threads, rec_loops, rec_events>>

shutdown_vars == <<aexit, cancel_requested, gathered, stopped, observers>>

lifecycle_vars == <<aenter, backends, screen_stop, thread_pool>>

stop_vars == <<self_running, stop_ev, stop_log>>

capture_vars == <<tick_grabs, stop_vars>>

observer_vars == <<now, scroll_params, scroll_vars, screen_vars, key_vars, capture_vars>>

vars == <<engine_vars, shutdown_vars, lifecycle_vars, handler_vars, inspector_vars, recorder_vars,
          observer_vars>>

\* ------------------------------------------------------------ helpers
\* All orders in which the elements of a finite set can be listed.
Orders(S) == {s \in [1..Cardinality(S) -> S] : \A i, j \in 1..Cardinality(S) : s[i] = s[j] => i = j}

Head1(s) == IF s = <<>> THEN <<"idle", 0, 0>> ELSE Head(s)

\* Tasks on the ready queue.
LoopTask == <<"loop", 0, 0>>
GetTask(o, r) == <<"get", o, r>>
PutTask(o, u) == <<"put", o, u>>
GateTask(u) == <<"gate", u, 0>>
WaitCallback == <<"wait_cb", 0, 0>>
AexitTask == <<"aexit", 0, 0>>

\* ------------------------------------------------------------ handler body
\* Python truthiness of an optional string: None and "" are false.
Truthy(s) == s # PyNone /\ s # ""

\* inspector.get_frontmost_app_name()
get_frontmost_app_name(insp) == insp.front

\* inspector.get_browser_url(app_name): None for no app name, else the URL the
\* inspector finds for that app.
get_browser_url(insp, app_name) ==
  IF ~Truthy(app_name) THEN PyNone
  ELSE IF app_name = insp.front THEN insp.front_url
  ELSE insp.other_url

ResolveAppNameAlways(update, insp) == get_frontmost_app_name(insp)

\* app_name = update.app_name or inspector.get_frontmost_app_name()
ResolveAppName(update, insp) ==
  IF Truthy(update.app_name) THEN update.app_name ELSE get_frontmost_app_name(insp)

\* The test that guards the URL lookup: if app_name and browser_url is None
AsksBrowserUrl(update, app_name) == Truthy(app_name) /\ update.browser_url = PyNone

\* browser_url = update.browser_url, replaced by the inspector's URL for app_name
\* when the lookup is made.
ResolveBrowserUrl(update, insp, app_name) ==
  IF AsksBrowserUrl(update, app_name) THEN get_browser_url(insp, app_name)
  ELSE update.browser_url

FrontCall == [fn |-> "get_frontmost_app_name", arg |-> PyNone]
BrowserCall(app_name) == [fn |-> "get_browser_url", arg |-> app_name]

InspectorCallsUrlAlways(update, insp) ==
  (IF Truthy(update.app_name) THEN <<>> ELSE <<FrontCall>>)
  \o <<BrowserCall(ResolveAppName(update, insp))>>

\* The inspector calls of one handler run, in order.
InspectorCalls(update, insp) ==
  (IF Truthy(update.app_name) THEN <<>> ELSE <<FrontCall>>)
  \o (IF AsksBrowserUrl(update, ResolveAppName(update, insp))
      THEN <<BrowserCall(ResolveAppName(update, insp))>> ELSE <<>>)

NewObservationSwapped(o, update, app_name, browser_url) ==
  [observer_name |-> o, content |-> update.content_type,
   content_type |-> update.content, app_name |-> app_name,
   browser_url |-> browser_url]

\* Observation(observer_name=observer.name, content=..., content_type=...,
\*             app_name=app_name, browser_url=browser_url, ...)
NewObservation(o, update, app_name, browser_url) ==
  [observer_name |-> o, content |-> update.content,
   content_type |-> update.content_type, app_name |-> app_name,
   browser_url |-> browser_url]

\* gum._handle_audit: always False.
handle_audit(observation) == FALSE

Updates ==
  [content : {c[1] : c \in UpdateContents}, content_type : {c[2] : c \in UpdateContents},
   app_name : UpdateAppNames, browser_url : UpdateUrls]

NoHandlerCall ==
  [observer |-> 0,
   update |-> [content |-> "", content_type |-> "", app_name |-> PyNone,
               browser_url |-> PyNone],
   insp |-> [front |-> PyNone, front_url |-> PyNone, other_url |-> PyNone],
   calls |-> <<>>, outcome |-> "none", before |-> 0]

HandlerInit ==
  /\ h_call = NoHandlerCall
  /\ h_store_len = 0
  /\ h_added = <<>>

\* gum._default_handler(observer, update) with the inspector answering as insp;
\* ok: session.flush() and the commit at the end of the session succeed.
default_handler(o, update, insp, ok) ==
  LET app_name == ResolveAppName(update, insp)
      browser_url == ResolveBrowserUrl(update, insp, app_name)
      observation == NewObservation(o, update, app_name, browser_url)
      added == ok /\ ~handle_audit(observation)
  IN /\ h_store_len < MaxStored
     /\ h_call' = [observer |-> o, update |-> update, insp |-> insp,
                   calls |-> InspectorCalls(update, insp),
                   outcome |-> IF ok THEN "returned" ELSE "raised",
                   before |-> h_store_len]
     /\ h_store_len' = IF added THEN h_store_len + 1 ELSE h_store_len
     /\ h_added' = IF added THEN <<observation>> ELSE <<>>
     /\ UNCHANGED <<engine_vars, shutdown_vars, lifecycle_vars, inspector_vars, recorder_vars, observer_vars>>

\* ------------------------------------------------------------ macOS inspector
\* Application names: two known browsers, one that is no browser, and none.
Apps == {"Arc", "Safari", "Notes", ""}
BrowserKeys == {"arc", "safari"}

\* inspector._resolve_browser_key: the key of a known browser, else None.
resolve_browser_key(app_name) ==
  IF app_name = "Arc" THEN "arc" ELSE IF app_name = "Safari" THEN "safari" ELSE PyNone

\* What the scripts of a browser do when run: one yields a URL, automation is
\* denied, or they fail otherwise.
ScriptOutcomes == {"url", "denied", "failed"}
ScriptUrl == "https://script.example"
\* What the accessibility API returns for the last frontmost pid.
AccessibilityUrls == {PyNone, "", "https://ax.example"}

NoCache == [valid |-> FALSE, value |-> PyNone]
NoUrlCall == [app |-> PyNone, scripts |-> "failed", ax |-> PyNone, cached |-> PyNone,
              result |-> PyNone, called |-> FALSE]
NoPermCall == [running |-> <<>>, force |-> FALSE, cache |-> NoCache, cache_hit |-> FALSE,
               result |-> PyNone, called |-> FALSE]

NoScriptCall == [runs |-> <<>>, result |-> PyNone, ran |-> 0, before |-> {}, failures |-> {},
                 calls |-> 0]

InspectorInit ==
  /\ last_browser_urls = [k \in BrowserKeys |-> PyNone]
  /\ browser_script_failures = {}
  /\ automation_cache = NoCache
  /\ url_call = NoUrlCall
  /\ perm_call = NoPermCall
  /\ script_call = NoScriptCall

\* _update_automation_cache(value)
update_automation_cache(value) == [valid |-> TRUE, value |-> value]

\* _read_automation_cache(force_refresh): (cached_value, cache_hit)
read_automation_cache(cache, force_refresh) ==
  IF force_refresh \/ ~cache.valid THEN [value |-> PyNone, hit |-> FALSE]
  ELSE [value |-> cache.value, hit |-> TRUE]

\* inspector._run_browser_scripts(app_name, key) on an inspector whose failure set
\* is failures: its result, and what it leaves in the automation cache, the URL
\* cache and the failure set.  A denial is recognised only for a failure not seen
\* before.
run_browser_scripts(key, outcome, failures, cache, urls) ==
  IF outcome = "url"
    THEN [result |-> ScriptUrl, cache |-> update_automation_cache("True"),
          urls |-> [urls EXCEPT ![key] = ScriptUrl], failures |-> failures]
  ELSE IF key \in failures
    THEN [result |-> PyNone, cache |-> cache, urls |-> urls, failures |-> failures]
  ELSE [result |-> PyNone,
        cache |-> IF outcome = "denied" THEN update_automation_cache("False") ELSE cache,
        urls |-> urls, failures |-> failures \cup {key}]

\* ---- _run_browser_scripts, script by script
\* What osascript prints for a script that exits with code 0.
ScriptOutputs == {"", "NULL", "Missing Value", "undefined", "https://a.example",
                  "https://b.example"}
\* _NULL_URL_VALUES
NULL_URL_VALUES == {"", "null", "missing value", "undefined"}

\* stdout.strip().lower() on the outputs above.
StripLower(stdout) ==
  CASE stdout = "NULL" -> "null"
    [] stdout = "Missing Value" -> "missing value"
    [] OTHER -> stdout

\* One run of osascript: subprocess.run returns with an exit code, stdout and a
\* stderr that does or does not report an automation denial, or it raises
\* (TimeoutExpired after 0.75 s, FileNotFoundError).
ScriptRuns ==
  [kind : {"exit"}, code : {0}, stdout : ScriptOutputs, denied : {FALSE}]
    \cup [kind : {"exit"}, code : {1}, stdout : {"", "https://a.example"}, denied : {FALSE}]
    \cup [kind : {"exit"}, code : {1}, stdout : {""}, denied : {TRUE}]
    \cup [kind : {"raises"}, code : {1}, stdout : {""}, denied : {FALSE}]

\* The runs of a browser's candidate scripts, in their listed order.
RECURSIVE RunLists(_)
RunLists(n) ==
  IF n = 0 THEN {<<>>}
  ELSE RunLists(n - 1) \cup {Append(l, r) : l \in {m \in RunLists(n - 1) : Len(m) = n - 1},
                                            r \in ScriptRuns}

\* Mutant of Qualifies: any output of a script that exits with 0 is a URL.
QualifiesAnyOutput(run) == run.kind = "exit" /\ run.code = 0

\* l.735: returncode == 0 and stdout and stdout.strip().lower() not in _NULL_URL_VALUES
Qualifies(run) ==
  /\ run.kind = "exit"
  /\ run.code = 0
  /\ run.stdout # ""
  /\ StripLower(run.stdout) \notin NULL_URL_VALUES

\* The for loop of _run_browser_scripts from the i-th script on: the value
\* returned, the number of scripts run, and the failure set, automation cache and
\* URL cache left behind.
RECURSIVE RunScriptsFrom(_, _, _, _, _, _)
RunScriptsFrom(key, runs, i, failures, cache, urls) ==
  IF i > Len(runs)
    THEN [result |-> PyNone, ran |-> Len(runs), failures |-> failures, cache |-> cache,
          urls |-> urls]
  ELSE LET run == runs[i]
           failure_sig == <<key, i, run.code>>
       IN IF run.kind = "raises"
            THEN [result |-> PyNone, ran |-> i, failures |-> failures, cache |-> cache,
                  urls |-> urls]
          ELSE IF Qualifies(run)
            THEN [result |-> run.stdout, ran |-> i, failures |-> failures,
                  cache |-> update_automation_cache("True"),
                  urls |-> [urls EXCEPT ![key] = run.stdout]]
          ELSE IF failure_sig \notin failures /\ run.denied
            THEN [result |-> PyNone, ran |-> i, failures |-> failures \cup {failure_sig},
                  cache |-> update_automation_cache("False"), urls |-> urls]
          ELSE RunScriptsFrom(key, runs, i + 1, failures \cup {failure_sig}, cache, urls)

\* inspector._run_browser_scripts(app_name, key="arc") with the given runs of
\* its candidate scripts; a second call meets the same runs.
MacOS_run_browser_scripts(runs) ==
  LET r == RunScriptsFrom("arc", runs, 1, script_call.failures, automation_cache,
                          last_browser_urls)
  IN /\ script_call.calls = 0 \/ (script_call.calls = 1 /\ runs = script_call.runs)
     /\ script_call' = [runs |-> runs, result |-> r.result, ran |-> r.ran,
                        before |-> script_call.failures, failures |-> r.failures,
                        calls |-> script_call.calls + 1]
     /\ automation_cache' = r.cache
     /\ last_browser_urls' = r.urls
     /\ UNCHANGED <<browser_script_failures, url_call, perm_call>>
     /\ UNCHANGED <<engine_vars, shutdown_vars, lifecycle_vars, handler_vars, recorder_vars, observer_vars>>

GetUrlCacheFirst(scripts_result, ax, cached) ==
  IF cached # PyNone THEN cached
  ELSE IF Truthy(scripts_result) THEN scripts_result
  ELSE IF Truthy(ax) THEN ax
  ELSE PyNone

\* get_browser_url for a known browser: scripts, then accessibility, then cache.
GetUrl(scripts_result, ax, cached) ==
  IF Truthy(scripts_result) THEN scripts_result
  ELSE IF Truthy(ax) THEN ax
  ELSE cached

\* MacOSAppAndBrowserInspector.get_browser_url(app_name); scripts: what the
\* browser's scripts do; ax: what the accessibility API returns.
MacOS_get_browser_url(app_name, scripts, ax) ==
  LET key == resolve_browser_key(app_name) IN
  /\ IF ~Truthy(app_name) \/ key = PyNone
       THEN /\ url_call' = [app |-> app_name, scripts |-> scripts, ax |-> ax,
                            cached |-> PyNone, result |-> PyNone, called |-> TRUE]
            /\ UNCHANGED <<last_browser_urls, browser_script_failures, automation_cache>>
       ELSE LET run == run_browser_scripts(key, scripts, browser_script_failures,
                                           automation_cache, last_browser_urls)
                result == GetUrl(run.result, ax, run.urls[key])
            IN /\ url_call' = [app |-> app_name, scripts |-> scripts, ax |-> ax,
                               cached |-> last_browser_urls[key], result |-> result,
                               called |-> TRUE]
               /\ last_browser_urls' = [run.urls EXCEPT ![key] = result]
               /\ browser_script_failures' = run.failures
               /\ automation_cache' = run.cache
  /\ UNCHANGED <<perm_call, script_call>>
  /\ UNCHANGED <<engine_vars, shutdown_vars, lifecycle_vars, handler_vars, recorder_vars, observer_vars>>

\* The time to live of the automation cache runs out
\* (_read_automation_cache: time.monotonic() - ts > AUTOMATION_PERMISSION_CACHE_TTL).
cache_expires ==
  /\ automation_cache.valid
  /\ automation_cache' = [automation_cache EXCEPT !.valid = FALSE]
  /\ UNCHANGED <<last_browser_urls, browser_script_failures, url_call, perm_call,
                 script_call>>
  /\ UNCHANGED <<engine_vars, shutdown_vars, lifecycle_vars, handler_vars, recorder_vars, observer_vars>>

\* inspector.running_browser_applications(): the running browsers in the order
\* they are probed, each with what its scripts do.
RunningBrowser == [key : BrowserKeys, outcome : ScriptOutcomes]
RunningLists ==
  {<<>>} \cup {<<a>> : a \in RunningBrowser}
         \cup {<<p[1], p[2]>> : p \in {q \in RunningBrowser \X RunningBrowser :
                                           q[1].key # q[2].key}}

\* The probing loop of check_automation_permission_granted from the i-th
\* running browser on, on a fresh inspector: the value returned and the
\* automation cache left behind.
RECURSIVE ProbeFrom(_, _, _)
ProbeFrom(running, i, cache) ==
  IF i > Len(running)
    THEN [result |-> PyNone,
          cache |-> IF Len(running) > 0 THEN update_automation_cache(PyNone) ELSE cache]
  ELSE LET run == run_browser_scripts(running[i].key, running[i].outcome, {}, cache,
                                      [k \in BrowserKeys |-> PyNone])
           read == read_automation_cache(run.cache, FALSE)
       IN IF run.result # PyNone THEN [result |-> "True", cache |-> run.cache]
          ELSE IF read.hit /\ read.value = "False"
            THEN [result |-> "False", cache |-> run.cache]
          ELSE ProbeFrom(running, i + 1, run.cache)

\* check_automation_permission_granted(force_refresh) with the given browsers
\* running.
check_automation_permission_granted(force_refresh, running) ==
  LET read == read_automation_cache(automation_cache, force_refresh)
      probe == ProbeFrom(running, 1, automation_cache)
  IN /\ perm_call' = [running |-> running, force |-> force_refresh,
                      cache |-> automation_cache, cache_hit |-> read.hit,
                      result |-> IF read.hit THEN read.value ELSE probe.result,
                      called |-> TRUE]
     /\ automation_cache' = IF read.hit THEN automation_cache ELSE probe.cache
     /\ UNCHANGED <<last_browser_urls, browser_script_failures, url_call, script_call>>
     /\ UNCHANGED <<engine_vars, shutdown_vars, lifecycle_vars, handler_vars, recorder_vars, observer_vars>>

\* ------------------------------------------------------------ input backends
Backends == {"keyboard", "mouse"}

\* PynputMouseBackend.start / PynputKeyboardBackend.start: a listener is created
\* and started unless _listener is already set.
BackendStart(b) ==
  IF b.listener THEN b
  ELSE [listener |-> TRUE, created |-> b.created + 1, running |-> b.running + 1]

\* PynputMouseBackend.stop / PynputKeyboardBackend.stop: the listener is stopped
\* and _listener reset, unless _listener is None.
BackendStop(b) ==
  IF ~b.listener THEN b
  ELSE [listener |-> FALSE, created |-> b.created, running |-> b.running - 1]

\* loop.run_in_executor(self._thread_pool, ...): submitting to an executor that
\* was shut down raises RuntimeError.
SubmitRaises(pool) == pool = "shutdown"

\* ------------------------------------------------------------ engine startup
\* How a call of the inspector's priming operation ends.
PrimeOutcomes == {"returns", "AttributeError", "RuntimeError"}

NotEntered ==
  [called |-> FALSE, db_ok |-> TRUE, to_thread |-> TRUE, has_prime |-> TRUE,
   prime |-> "returns", steps |-> <<>>, outcome |-> "none"]

\* The first attempt, `await asyncio.to_thread(inspector.prime_...)`: evaluating
\* asyncio.to_thread or the inspector's attribute can raise AttributeError before
\* anything is called; else the priming operation runs.
FirstAttempt(to_thread, has_prime, prime) ==
  IF ~to_thread \/ ~has_prime THEN [called |-> FALSE, raised |-> "AttributeError"]
  ELSE [called |-> TRUE, raised |-> IF prime = "returns" THEN "no" ELSE prime]

\* The handler of `except AttributeError`: run_in_executor(None, inspector.prime_...)
SecondAttempt(has_prime, prime) ==
  IF ~has_prime THEN [called |-> FALSE, raised |-> "AttributeError"]
  ELSE [called |-> TRUE, raised |-> IF prime = "returns" THEN "no" ELSE prime]

\* The try statement of __aenter__: the priming calls made and what it raises.
Priming(to_thread, has_prime, prime) ==
  LET first == FirstAttempt(to_thread, has_prime, prime)
      second == SecondAttempt(has_prime, prime)
  IN IF first.raised # "AttributeError"
       THEN [steps |-> IF first.called THEN <<"prime">> ELSE <<>>, raised |-> first.raised]
       ELSE [steps |-> (IF first.called THEN <<"prime">> ELSE <<>>)
                       \o (IF second.called THEN <<"prime">> ELSE <<>>),
             raised |-> second.raised]

\* ------------------------------------------------------------ background recorder
\* The recordings: start() number i creates thread i, event loop i and stop event i.
RecordingIds == 1..MaxRecordings

\* A recorder thread not created yet.
NoThread == [pc |-> "none", loop |-> 0, event |-> 0, clobbered |-> FALSE]

\* BackgroundRecorder's class attributes as the class body sets them.
RecorderInit ==
  /\ cls_thread = 0
  /\ cls_loop = 0
  /\ cls_stop_event = 0
  /\ cls_running = FALSE
  /\ cls_screen = 0
  /\ rec_main = "idle"
  /\ rec_threads = [i \in RecordingIds |-> NoThread]
  /\ rec_loops = [i \in RecordingIds |-> "none"]
  /\ rec_events = [i \in RecordingIds |-> FALSE]

\* Thread.is_alive(): from Thread.start() until _thread_target has ended.
Alive(i) == rec_threads[i].pc \notin {"none", "dead"}

\* BackgroundRecorder.start: nothing when _running; else a new stop event, a new
\* loop and a new daemon thread are stored in the class, _running is set and the
\* thread is started.
BackgroundRecorder_start ==
  /\ rec_main = "idle"
  /\ IF cls_running
       THEN UNCHANGED recorder_vars
       ELSE \E i \in RecordingIds :
              /\ rec_threads[i].pc = "none"
              /\ \A j \in RecordingIds : j < i => rec_threads[j].pc # "none"
              /\ cls_stop_event' = i
              /\ cls_loop' = i
              /\ rec_loops' = [rec_loops EXCEPT ![i] = "new"]
              /\ cls_thread' = i
              /\ cls_running' = TRUE
              /\ rec_threads' = [rec_threads EXCEPT ![i].pc = "started"]
              /\ UNCHANGED <<cls_screen, rec_main, rec_events>>
  /\ UNCHANGED <<engine_vars, shutdown_vars, lifecycle_vars, handler_vars, inspector_vars, observer_vars>>

\* BackgroundRecorder.stop up to its join: nothing when not _running; else the
\* stop event the class holds is set through call_soon_threadsafe on the loop the
\* class holds (RuntimeError of a closed loop ignored), and the thread the class
\* holds is joined if it is alive.
BackgroundRecorder_stop ==
  /\ rec_main = "idle"
  /\ IF ~cls_running
       THEN UNCHANGED recorder_vars
       ELSE /\ rec_events' = IF cls_loop # 0 /\ cls_stop_event # 0
                                  /\ rec_loops[cls_loop] # "closed"
                               THEN [rec_events EXCEPT ![cls_stop_event] = TRUE]
                               ELSE rec_events
            /\ IF cls_thread # 0 /\ Alive(cls_thread)
                 THEN /\ rec_main' = "joining"
                      /\ UNCHANGED <<cls_thread, cls_running>>
                 ELSE /\ cls_thread' = 0
                      /\ cls_running' = FALSE
                      /\ UNCHANGED rec_main
            /\ UNCHANGED <<cls_loop, cls_stop_event, cls_screen, rec_threads, rec_loops>>
  /\ UNCHANGED <<engine_vars, shutdown_vars, lifecycle_vars, handler_vars, inspector_vars, observer_vars>>

\* BackgroundRecorder.stop after _thread.join(timeout=5): the join returns when
\* the thread has ended or when 5 seconds have passed, whichever is first; then
\* _thread = None and _running = False.
stop_joined ==
  /\ rec_main = "joining"
  /\ cls_thread' = 0
  /\ cls_running' = FALSE
  /\ rec_main' = "idle"
  /\ UNCHANGED <<cls_loop, cls_stop_event, cls_screen, rec_threads, rec_loops, rec_events>>
  /\ UNCHANGED <<engine_vars, shutdown_vars, lifecycle_vars, handler_vars, inspector_vars, observer_vars>>

\* _thread_target up to the wait of _run: the loop is read from the class (an
\* assertion outside the try fails when it is None); run_until_complete raises
\* when that loop is closed or running in another thread; else _run builds the
\* Screen, stores it in the class, enters the engine and waits on the stop event
\* it reads from the class.
thread_run(i) ==
  /\ rec_threads[i].pc = "started"
  /\ IF cls_loop = 0
       THEN /\ rec_threads' = [rec_threads EXCEPT ![i].pc = "dead"]
            /\ UNCHANGED <<cls_screen, rec_loops>>
     ELSE IF rec_loops[cls_loop] \in {"running", "stopping", "closed"}
       THEN /\ rec_threads' = [rec_threads EXCEPT ![i].pc = "finally", ![i].loop = cls_loop]
            /\ UNCHANGED <<cls_screen, rec_loops>>
       ELSE /\ rec_threads' = [rec_threads EXCEPT ![i].pc = "running", ![i].loop = cls_loop,
                                                  ![i].event = cls_stop_event]
            /\ rec_loops' = [rec_loops EXCEPT ![cls_loop] = "running"]
            /\ cls_screen' = i
  /\ UNCHANGED <<cls_thread, cls_loop, cls_stop_event, cls_running, rec_main, rec_events>>
  /\ UNCHANGED <<engine_vars, shutdown_vars, lifecycle_vars, handler_vars, inspector_vars, observer_vars>>

\* run_until_complete(_run()) ends: the stop event was set (or was None when
\* read), the loop was stopped from another thread, or _run failed.
thread_run_ends(i, fails) ==
  /\ rec_threads[i].pc = "running"
  /\ \/ fails
     \/ rec_threads[i].event = 0
     \/ rec_threads[i].event # 0 /\ rec_events[rec_threads[i].event]
     \/ rec_loops[rec_threads[i].loop] = "stopping"
  /\ rec_threads' = [rec_threads EXCEPT ![i].pc = "finally"]
  /\ rec_loops' = [rec_loops EXCEPT ![rec_threads[i].loop] = "idle"]
  /\ UNCHANGED <<cls_thread, cls_loop, cls_stop_event, cls_running, cls_screen, rec_main,
                 rec_events>>
  /\ UNCHANGED <<engine_vars, shutdown_vars, lifecycle_vars, handler_vars, inspector_vars, observer_vars>>

\* The finally block of _thread_target up to loop.close(), on the loop the class
\* holds now: the cancelling of pending tasks swallows its exceptions;
\* cls._loop.stop() raises AttributeError when the class holds None, and close()
\* raises RuntimeError when the loop is running in another thread: the thread
\* then ends without the resets.
thread_finally(i) ==
  /\ rec_threads[i].pc = "finally"
  /\ IF cls_loop = 0
       THEN /\ rec_threads' = [rec_threads EXCEPT ![i].pc = "dead"]
            /\ UNCHANGED rec_loops
     ELSE IF rec_loops[cls_loop] \in {"running", "stopping"}
       THEN /\ rec_threads' = [rec_threads EXCEPT ![i].pc = "dead"]
            /\ rec_loops' = [rec_loops EXCEPT ![cls_loop] = "stopping"]
       ELSE /\ rec_threads' = [rec_threads EXCEPT ![i].pc = "reset"]
            /\ rec_loops' = [rec_loops EXCEPT ![cls_loop] = "closed"]
  /\ UNCHANGED <<cls_thread, cls_loop, cls_stop_event, cls_running, cls_screen, rec_main,
                 rec_events>>
  /\ UNCHANGED <<engine_vars, shutdown_vars, lifecycle_vars, handler_vars, inspector_vars, observer_vars>>

\* The end of the finally block: _loop, _stop_event and _screen are set to None
\* and _running to False, whatever the class holds; then the thread ends.
thread_reset(i) ==
  /\ rec_threads[i].pc = "reset"
  /\ cls_loop' = 0
  /\ cls_stop_event' = 0
  /\ cls_running' = FALSE
  /\ cls_screen' = 0
  /\ rec_threads' = [rec_threads EXCEPT ![i].pc = "dead",
                                        ![i].clobbered = cls_thread \notin {0, i}]
  /\ UNCHANGED <<cls_thread, rec_main, rec_loops, rec_events>>
  /\ UNCHANGED <<engine_vars, shutdown_vars, lifecycle_vars, handler_vars, inspector_vars, observer_vars>>

\* ------------------------------------------------------------ engine
EngineInitFor(registered) ==
  /\ observers = registered
  /\ HandlerInit
  /\ InspectorInit
  /\ RecorderInit
  /\ aenter = NotEntered
  /\ backends = [b \in Backends |-> [listener |-> FALSE, created |-> 0, running |-> 0]]
  /\ screen_stop = [calls |-> 0, outcome |-> "none", changed |-> FALSE]
  /\ thread_pool = "open"
  /\ aexit = "no"
  /\ cancel_requested = FALSE
  /\ gathered = {}
  /\ stopped = <<>>
  /\ max_concurrent_updates \in 1..MaxPermits
  /\ loop_task = "none"
  /\ round = 0
  /\ update_queue = [o \in Observers |-> <<>>]
  /\ q_getters = [o \in Observers |-> <<>>]
  /\ got = {}
  /\ runq = <<>>
  /\ upd_src = [u \in UpdateIds |-> 0]
  /\ h_state = [u \in UpdateIds |-> "none"]
  /\ spawned = [u \in UpdateIds |-> 0]
  /\ sem_value = max_concurrent_updates
  /\ sem_waiters = <<>>

\* gum.__init__ with every observer of the model registered.
EngineInit == EngineInitFor(Observers)

\* gum.start_update_loop: creates the _update_loop task once.
start_update_loop ==
  /\ IF loop_task = "none"
       THEN /\ loop_task' = "ready"
            /\ runq' = Append(runq, LoopTask)
       ELSE UNCHANGED <<loop_task, runq>>
  /\ UNCHANGED <<max_concurrent_updates, round, update_queue, q_getters, got, upd_src,
                 h_state, spawned, sem_value, sem_waiters>>
  /\ UNCHANGED <<shutdown_vars, lifecycle_vars, handler_vars, inspector_vars, recorder_vars, observer_vars>>

\* gum.__aenter__: connect_db, prime the inspector, start_update_loop.
\* db_ok: init_db returns; to_thread: asyncio.to_thread exists; has_prime: the
\* inspector has prime_automation_for_running_browsers; prime: how that ends.
aenter_call(db_ok, to_thread, has_prime, prime) ==
  LET priming == Priming(to_thread, has_prime, prime)
      starts == db_ok /\ priming.raised = "no"
  IN /\ ~aenter.called
     /\ aenter' = [called |-> TRUE, db_ok |-> db_ok, to_thread |-> to_thread,
                   has_prime |-> has_prime, prime |-> prime,
                   steps |-> IF ~db_ok THEN <<"connect_db">>
                             ELSE <<"connect_db">> \o priming.steps
                                  \o (IF starts THEN <<"start_update_loop">> ELSE <<>>),
                   outcome |-> IF ~db_ok THEN "raised"
                               ELSE IF priming.raised # "no" THEN "raised"
                               ELSE "entered"]
     /\ IF starts /\ loop_task = "none"
          THEN /\ loop_task' = "ready"
               /\ runq' = Append(runq, LoopTask)
          ELSE UNCHANGED <<loop_task, runq>>
     /\ UNCHANGED <<max_concurrent_updates, round, update_queue, q_getters, got, upd_src,
                    h_state, spawned, sem_value, sem_waiters>>
     /\ UNCHANGED <<backends, screen_stop, thread_pool>>
     /\ UNCHANGED <<shutdown_vars, handler_vars, inspector_vars, recorder_vars, observer_vars>>

\* An observer's coroutine that emits an Update becomes ready to run.
Emit(o) ==
  /\ o \in observers
  /\ \E u \in UpdateIds :
       /\ upd_src[u] = 0
       /\ \A v \in UpdateIds : v < u => upd_src[v] # 0
       /\ upd_src' = [upd_src EXCEPT ![u] = o]
       /\ runq' = Append(runq, PutTask(o, u))
  /\ UNCHANGED <<max_concurrent_updates, loop_task, round, update_queue, q_getters, got,
                 h_state, spawned, sem_value, sem_waiters>>
  /\ UNCHANGED <<shutdown_vars, lifecycle_vars, handler_vars, inspector_vars, recorder_vars, observer_vars>>

\* update_queue.put(update): the item is queued and the first waiting get() is woken.
QueuePut(o, u) ==
  /\ Head1(runq) = PutTask(o, u)
  /\ update_queue' = [update_queue EXCEPT ![o] = Append(@, u)]
  /\ IF q_getters[o] # <<>>
       THEN /\ q_getters' = [q_getters EXCEPT ![o] = Tail(@)]
            /\ runq' = Append(Tail(runq), GetTask(o, Head(q_getters[o])))
       ELSE /\ UNCHANGED q_getters
            /\ runq' = Tail(runq)
  /\ UNCHANGED <<max_concurrent_updates, loop_task, round, got, upd_src, h_state, spawned,
                 sem_value, sem_waiters>>
  /\ UNCHANGED <<shutdown_vars, lifecycle_vars, handler_vars, inspector_vars, recorder_vars, observer_vars>>

\* asyncio.wait(gets, FIRST_COMPLETED): the first get() task of the current round
\* that finishes schedules the callback that ends the wait.
EndsWait(r) == r = round /\ loop_task = "waiting"

\* One step of an update_queue.get() task created by round r of _update_loop.
QueueGet(o, r) ==
  /\ Head1(runq) = GetTask(o, r)
  /\ IF update_queue[o] = <<>>
       THEN /\ q_getters' = [q_getters EXCEPT ![o] = Append(@, r)]
            /\ runq' = Tail(runq)
            /\ UNCHANGED <<update_queue, got, loop_task>>
       ELSE /\ update_queue' = [update_queue EXCEPT ![o] = Tail(@)]
            /\ got' = got \cup {<<o, r, Head(update_queue[o])>>}
            /\ IF EndsWait(r)
                 THEN /\ loop_task' = "notified"
                      /\ runq' = Append(Tail(runq), WaitCallback)
                 ELSE /\ UNCHANGED loop_task
                      /\ runq' = Tail(runq)
            /\ UNCHANGED q_getters
  /\ UNCHANGED <<max_concurrent_updates, round, upd_src, h_state, spawned, sem_value,
                 sem_waiters>>
  /\ UNCHANGED <<shutdown_vars, lifecycle_vars, handler_vars, inspector_vars, recorder_vars, observer_vars>>

\* asyncio.wait's completion callback resumes _update_loop.
wait_completed ==
  /\ Head1(runq) = WaitCallback
  /\ IF cancel_requested
       THEN /\ runq' = Tail(runq)
            /\ UNCHANGED loop_task
       ELSE /\ loop_task' = "ready"
            /\ runq' = Append(Tail(runq), LoopTask)
  /\ UNCHANGED <<max_concurrent_updates, round, update_queue, q_getters, got, upd_src,
                 h_state, spawned, sem_value, sem_waiters>>
  /\ UNCHANGED <<shutdown_vars, lifecycle_vars, handler_vars, inspector_vars, recorder_vars, observer_vars>>

\* The get() tasks whose results the loop reads when asyncio.wait returns.
DoneGets == {g \in got : g[2] = round}

\* The get() tasks one iteration creates, in the order of self.observers.
NewGets(r) == [o \in Observers |-> GetTask(o, r)]

\* Mutant of LoopResumes: the loop goes on only when a permit is free, as if it
\* ran the handler itself.
LoopResumesWithPermit == Head1(runq) = LoopTask /\ sem_value > 0

\* _update_loop resumes when its task is run: after its creation, and after
\* asyncio.wait has returned.  It waits for nothing else.
LoopResumes == Head1(runq) = LoopTask

\* Mutant of update_loop: the loop goes on although its cancellation is pending.
update_loop_uncancelled ==
  /\ LoopResumes
  /\ IF observers = {}
       THEN /\ loop_task' = "failed"
            /\ runq' = Tail(runq)
            /\ UNCHANGED <<h_state, spawned, got, round>>
       ELSE /\ \E done \in Orders(DoneGets) :
                 /\ runq' = Tail(runq) \o [i \in 1..Len(done) |-> GateTask(done[i][3])]
                                       \o NewGets(round + 1)
                 /\ h_state' = [u \in UpdateIds |->
                                  IF \E i \in 1..Len(done) : done[i][3] = u
                                    THEN "created" ELSE h_state[u]]
                 /\ spawned' = [u \in UpdateIds |->
                                  IF \E i \in 1..Len(done) : done[i][3] = u
                                    THEN spawned[u] + 1 ELSE spawned[u]]
            /\ got' = got \ DoneGets
            /\ round' = round + 1
            /\ loop_task' = "waiting"
  /\ UNCHANGED <<max_concurrent_updates, update_queue, q_getters, upd_src, sem_value,
                 sem_waiters>>
  /\ UNCHANGED <<shutdown_vars, lifecycle_vars, handler_vars, inspector_vars, recorder_vars, observer_vars>>

\* gum._update_loop: from the return of asyncio.wait to the next asyncio.wait.
\* With no observer the set of get() tasks is empty, asyncio.wait raises
\* ValueError and the loop task ends with that exception.
update_loop ==
  /\ LoopResumes
  /\ ~cancel_requested
  /\ IF observers = {}
       THEN /\ loop_task' = "failed"
            /\ runq' = Tail(runq)
            /\ UNCHANGED <<h_state, spawned, got, round>>
       ELSE /\ \E done \in Orders(DoneGets) :
                 /\ runq' = Tail(runq) \o [i \in 1..Len(done) |-> GateTask(done[i][3])]
                                       \o NewGets(round + 1)
                 /\ h_state' = [u \in UpdateIds |->
                                  IF \E i \in 1..Len(done) : done[i][3] = u
                                    THEN "created" ELSE h_state[u]]
                 /\ spawned' = [u \in UpdateIds |->
                                  IF \E i \in 1..Len(done) : done[i][3] = u
                                    THEN spawned[u] + 1 ELSE spawned[u]]
            /\ got' = got \ DoneGets
            /\ round' = round + 1
            /\ loop_task' = "waiting"
  /\ UNCHANGED <<max_concurrent_updates, update_queue, q_getters, upd_src, sem_value,
                 sem_waiters>>
  /\ UNCHANGED <<shutdown_vars, lifecycle_vars, handler_vars, inspector_vars, recorder_vars, observer_vars>>

\* Mutant of SemLocked: the gate admits every task.
SemLockedNever(value, waiters) == FALSE

\* asyncio.Semaphore.locked(): no permit is free, or a task is already waiting.
SemLocked(value, waiters) == value = 0 \/ waiters # <<>>

\* gum._run_with_gate, entry: `async with self._update_sem` acquires a permit or waits.
gate_acquire(u) ==
  /\ Head1(runq) = GateTask(u)
  /\ h_state[u] = "created"
  /\ runq' = Tail(runq)
  /\ IF SemLocked(sem_value, sem_waiters)
       THEN /\ sem_waiters' = Append(sem_waiters, u)
            /\ h_state' = [h_state EXCEPT ![u] = "waiting"]
            /\ UNCHANGED sem_value
       ELSE /\ sem_value' = sem_value - 1
            /\ h_state' = [h_state EXCEPT ![u] = "running"]
            /\ UNCHANGED sem_waiters
  /\ UNCHANGED <<max_concurrent_updates, loop_task, round, update_queue, q_getters, got,
                 upd_src, spawned>>
  /\ UNCHANGED <<shutdown_vars, lifecycle_vars, handler_vars, inspector_vars, recorder_vars, observer_vars>>

\* gum._run_with_gate: a task that was handed a permit enters the handler body.
gate_enter(u) ==
  /\ Head1(runq) = GateTask(u)
  /\ h_state[u] = "granted"
  /\ runq' = Tail(runq)
  /\ h_state' = [h_state EXCEPT ![u] = "running"]
  /\ UNCHANGED <<max_concurrent_updates, loop_task, round, update_queue, q_getters, got,
                 upd_src, spawned, sem_value, sem_waiters>>
  /\ UNCHANGED <<shutdown_vars, lifecycle_vars, handler_vars, inspector_vars, recorder_vars, observer_vars>>

\* gum._default_handler: the body's last await returns (ok) or raises (~ok).
handler_returns(u, ok) ==
  /\ h_state[u] = "running"
  /\ h_state' = [h_state EXCEPT ![u] = IF ok THEN "returning" ELSE "raising"]
  /\ runq' = Append(runq, GateTask(u))
  /\ UNCHANGED <<max_concurrent_updates, loop_task, round, update_queue, q_getters, got,
                 upd_src, spawned, sem_value, sem_waiters>>
  /\ UNCHANGED <<shutdown_vars, lifecycle_vars, handler_vars, inspector_vars, recorder_vars, observer_vars>>

\* Mutant of SemRelease: the permit is returned but no waiter is woken.
SemReleaseNoWake(value, waiters) == [value |-> value + 1, waiters |-> waiters, woken |-> 0]

\* asyncio.Semaphore.release(): the permit goes to the first waiter, if there is one.
SemRelease(value, waiters) ==
  IF waiters = <<>>
    THEN [value |-> value + 1, waiters |-> waiters, woken |-> 0]
    ELSE [value |-> value, waiters |-> Tail(waiters), woken |-> Head(waiters)]

\* gum._run_with_gate, exit: the permit is released whether the body returned or raised.
gate_release(u) ==
  /\ Head1(runq) = GateTask(u)
  /\ h_state[u] \in {"returning", "raising"}
  /\ LET rel == SemRelease(sem_value, sem_waiters) IN
       /\ sem_value' = rel.value
       /\ sem_waiters' = rel.waiters
       /\ h_state' = [v \in UpdateIds |->
                        IF v = u THEN (IF h_state[u] = "returning" THEN "done" ELSE "failed")
                        ELSE IF v = rel.woken THEN "granted"
                        ELSE h_state[v]]
       /\ runq' = IF rel.woken = 0 THEN Tail(runq) ELSE Append(Tail(runq), GateTask(rel.woken))
  /\ UNCHANGED <<max_concurrent_updates, loop_task, round, update_queue, q_getters, got,
                 upd_src, spawned>>
  /\ UNCHANGED <<shutdown_vars, lifecycle_vars, handler_vars, inspector_vars, recorder_vars, observer_vars>>

\* The event loop runs the task at the head of its ready queue.
RunTask ==
  \/ \E o \in Observers, u \in UpdateIds : QueuePut(o, u)
  \/ \E o \in Observers, r \in 1..(MaxUpdates + 2) : QueueGet(o, r)
  \/ wait_completed
  \/ update_loop
  \/ \E u \in UpdateIds : gate_acquire(u)
  \/ \E u \in UpdateIds : gate_enter(u)
  \/ \E u \in UpdateIds : gate_release(u)

\* A handler body ends.
BodyEnds == \E u \in UpdateIds, ok \in BOOLEAN : handler_returns(u, ok)

\* ------------------------------------------------------------ engine shutdown
\* self._tasks: the handling tasks that have not yet left _run_with_gate.
Tasks ==
  {u \in UpdateIds :
     h_state[u] \in {"created", "waiting", "granted", "running", "returning", "raising"}}

\* Task.cancel() on the loop task: a loop suspended in asyncio.wait is woken with
\* CancelledError; a loop already scheduled to run gets it at its next step.
CancelWakes == loop_task \in {"waiting", "notified"}

AfterLoopNoGather(tasks) ==
  /\ gathered' = tasks
  /\ aexit' = "stop_observers"

\* __aexit__ after stop_update_loop: gather the handling tasks if there are any.
AfterLoop(tasks) ==
  /\ gathered' = tasks
  /\ aexit' = IF tasks # {} THEN "gather"
              ELSE IF observers = {} THEN "exited" ELSE "stop_observers"

\* gum.__aexit__ -> stop_update_loop: cancel the loop task and await it.  The
\* cancel of a task that has ended does nothing, and awaiting it raises the
\* exception it ended with; only CancelledError is caught.
aexit_begin ==
  /\ aexit = "no"
  /\ IF loop_task = "failed"
       THEN /\ aexit' = "raised"
            /\ UNCHANGED <<cancel_requested, runq, loop_task, gathered>>
     ELSE IF loop_task # "none"
       THEN /\ cancel_requested' = TRUE
            /\ runq' = IF CancelWakes THEN Append(runq, LoopTask) ELSE runq
            /\ loop_task' = "ready"
            /\ aexit' = "await_loop"
            /\ UNCHANGED gathered
       ELSE /\ AfterLoop(Tasks)
            /\ UNCHANGED <<cancel_requested, runq, loop_task>>
  /\ UNCHANGED <<max_concurrent_updates, round, update_queue, q_getters, got, upd_src,
                 h_state, spawned, sem_value, sem_waiters, stopped, observers>>
  /\ UNCHANGED <<lifecycle_vars, handler_vars, inspector_vars, recorder_vars, observer_vars>>

\* The loop task is run with the cancellation pending: CancelledError is thrown
\* into _update_loop, the task ends cancelled and wakes stop_update_loop.
loop_cancelled ==
  /\ Head1(runq) = LoopTask
  /\ cancel_requested
  /\ cancel_requested' = FALSE
  /\ loop_task' = "cancelled"
  /\ runq' = Append(Tail(runq), AexitTask)
  /\ UNCHANGED <<max_concurrent_updates, round, update_queue, q_getters, got, upd_src,
                 h_state, spawned, sem_value, sem_waiters, aexit, gathered, stopped, observers>>
  /\ UNCHANGED <<lifecycle_vars, handler_vars, inspector_vars, recorder_vars, observer_vars>>

\* stop_update_loop resumes: CancelledError is swallowed, _loop_task = None; then
\* __aexit__ goes on to `if self._tasks: await asyncio.gather(...)`.
aexit_after_loop ==
  /\ Head1(runq) = AexitTask
  /\ aexit = "await_loop"
  /\ runq' = Tail(runq)
  /\ loop_task' = "none"
  /\ AfterLoop(Tasks)
  /\ UNCHANGED <<max_concurrent_updates, round, update_queue, q_getters, got, upd_src,
                 h_state, spawned, sem_value, sem_waiters, cancel_requested, stopped, observers>>
  /\ UNCHANGED <<lifecycle_vars, handler_vars, inspector_vars, recorder_vars, observer_vars>>

GatherRaisesFirst(tasks) ==
  IF \E u \in tasks : h_state[u] = "failed" THEN "raised" ELSE "stop_observers"

\* asyncio.gather(*tasks, return_exceptions=True): exceptions of the tasks are
\* returned in the result list, never raised.
GatherOutcome(tasks) == "stop_observers"

\* await asyncio.gather(...) returns when every gathered task has finished.
gather_done ==
  /\ aexit = "gather"
  /\ \A u \in gathered : h_state[u] \in {"done", "failed"}
  /\ aexit' = GatherOutcome(gathered)
  /\ UNCHANGED <<engine_vars, cancel_requested, gathered, stopped, observers>>
  /\ UNCHANGED <<lifecycle_vars, handler_vars, inspector_vars, recorder_vars, observer_vars>>

\* for obs in self.observers: await obs.stop()
stop_observer(o) ==
  /\ aexit = "stop_observers"
  /\ o = Len(stopped) + 1
  /\ stopped' = Append(stopped, o)
  /\ aexit' = IF o = NumObservers THEN "exited" ELSE aexit
  /\ UNCHANGED <<engine_vars, cancel_requested, gathered, observers>>
  /\ UNCHANGED <<lifecycle_vars, handler_vars, inspector_vars, recorder_vars, observer_vars>>

\* The steps of __aexit__ once it was entered.
AexitSteps ==
  \/ loop_cancelled
  \/ aexit_after_loop
  \/ gather_done
  \/ \E o \in Observers : stop_observer(o)

\* ------------------------------------------------------------ scroll filter
NoEvent == [type |-> "none", pc |-> "none", mon |-> 0, position |-> NoPosition,
            scroll |-> <<0, 0>>, rule |-> 0, point |-> NoPosition, guard |-> FALSE]

NoCall == [x |-> None, y |-> None, t |-> None, ok |-> FALSE, rule |-> 0,
           start |-> None, count |-> 0, position |-> NoPosition, last |-> None]

\* A key event not delivered yet; no session end and no collapse recorded yet.
NoKey == [pc |-> "new", t |-> None, mon |-> 0, position |-> NoPosition, fr |-> FALSE,
          branch |-> "none", guard |-> FALSE]
NoEnd == [by |-> "none", t |-> None, start |-> None, last_event |-> None, shots |-> <<>>,
          after |-> <<>>, files |-> {}]
NoCollapse == [before |-> <<>>, after |-> <<>>]
NoKeyPosition == <<None, None, 0>>

\* Screen.__init__, keyboard activity tracking: no key session.
KeyInit ==
  /\ key_activity_start = None
  /\ key_screenshots = <<>>
  /\ last_key_screenshot_time = None
  /\ last_key_position = NoKeyPosition
  /\ key_lock = 0
  /\ key_lock_waiters = <<>>
  /\ keys = [k \in KeyIds |-> NoKey]
  /\ key_updates = <<>>
  /\ cleanup_tasks = 0
  /\ to_delete = {}
  /\ key_files = {}
  /\ key_log = {}
  /\ key_last_event = None
  /\ key_end = NoEnd
  /\ tick_time = None
  /\ key_collapse = NoCollapse

\* The capture loop has not left its loop.
NoStop == [ev |-> 0, outcome |-> "none", needed |-> FALSE, renamed |-> "none",
           before |-> <<>>]

\* Screen.__init__: the filter parameters are injected, the session is empty.
ScreenInit ==
  /\ now = 0
  /\ scroll_debounce_sec \in ScrollDebounces
  /\ scroll_min_distance = SCROLL_MIN_DISTANCE_DEFAULT
  /\ scroll_max_frequency = SCROLL_MAX_FREQUENCY_DEFAULT
  /\ scroll_session_timeout = SCROLL_SESSION_TIMEOUT_DEFAULT
  /\ scroll_session_start = None
  /\ scroll_event_count = 0
  /\ scroll_last_position = NoPosition
  /\ scroll_last_time = None
  /\ scroll_call = NoCall
  /\ worker = "init"
  /\ worker_idx = 1
  /\ frames = [m \in MonIds |-> FALSE]
  /\ tick_grabs = [m \in MonIds |-> "none"]
  /\ self_running = TRUE
  /\ stop_ev = NoStop
  /\ stop_log = <<>>
  /\ guard_visible = FALSE
  /\ pending_event = 0
  /\ events = [e \in EventIds |-> NoEvent]
  /\ screen_updates = <<>>
  /\ KeyInit

\* Mutant of NewSession: an expired session is never replaced.
NewSessionOnlyFirst(t) == scroll_session_start = None

\* Rule 1: no session, or the session started more than the timeout ago.
NewSession(t) ==
  scroll_session_start = None \/ t - scroll_session_start > scroll_session_timeout

\* Mutant of Debounced: the debounce is measured from the session's start.
DebouncedFromStart(t) ==
  scroll_session_start # None /\ t - scroll_session_start < scroll_debounce_sec

\* Rule 2: less than the debounce after the last accepted sample.
Debounced(t) ==
  scroll_last_time # None /\ t - scroll_last_time < scroll_debounce_sec

\* Mutant of TooClose: the squared distance is compared with the distance.
TooCloseUnsquared(x, y) ==
  /\ scroll_last_position # NoPosition
  /\ (x - scroll_last_position[1]) * (x - scroll_last_position[1])
       + (y - scroll_last_position[2]) * (y - scroll_last_position[2])
     < scroll_min_distance

\* Rule 3: closer than the minimum distance to the last accepted position
\* (sqrt(d2) < m  iff  d2 < m * m, for m >= 0).
TooClose(x, y) ==
  /\ scroll_last_position # NoPosition
  /\ (x - scroll_last_position[1]) * (x - scroll_last_position[1])
       + (y - scroll_last_position[2]) * (y - scroll_last_position[2])
     < scroll_min_distance * scroll_min_distance

\* Mutant of TooFrequent: the frequency is compared with >=.
TooFrequentInclusive(count, duration) ==
  duration > 0 /\ count * TicksPerSecond >= scroll_max_frequency * duration

\* Mutant of TooFrequent: the sample that opened the session is counted too.
TooFrequentCountsFirst(count, duration) ==
  duration > 0 /\ (count + 1) * TicksPerSecond > scroll_max_frequency * duration

\* Rule 4: count events in duration ticks are more than the maximum frequency
\* (count / (duration / TicksPerSecond) > max  iff  count * TicksPerSecond > max * duration).
TooFrequent(count, duration) ==
  duration > 0 /\ count * TicksPerSecond > scroll_max_frequency * duration

\* Mutant of should_log_scroll: the sample that opens a session is not recorded
\* as the last accepted one.
should_log_scroll_unrecorded(x, y, t) ==
  LET keep == [start |-> scroll_session_start, count |-> scroll_event_count,
               position |-> scroll_last_position, last |-> scroll_last_time]
  IN
  IF NewSession(t)
    THEN [ok |-> TRUE, rule |-> 1, start |-> t, count |-> 0, position |-> NoPosition,
          last |-> None]
  ELSE IF Debounced(t)
    THEN [ok |-> FALSE, rule |-> 2] @@ keep
  ELSE IF TooClose(x, y)
    THEN [ok |-> FALSE, rule |-> 3] @@ keep
  ELSE IF TooFrequent(scroll_event_count + 1, t - scroll_session_start)
    THEN [ok |-> FALSE, rule |-> 4] @@ [keep EXCEPT !.count = scroll_event_count + 1]
  ELSE [ok |-> TRUE, rule |-> 5, start |-> scroll_session_start,
        count |-> scroll_event_count + 1, position |-> <<x, y>>, last |-> t]

\* Screen._should_log_scroll at clock reading t: the result, the rule that decided,
\* and the session it leaves.
should_log_scroll(x, y, t) ==
  LET keep == [start |-> scroll_session_start, count |-> scroll_event_count,
               position |-> scroll_last_position, last |-> scroll_last_time]
  IN
  IF NewSession(t)
    THEN [ok |-> TRUE, rule |-> 1, start |-> t, count |-> 0, position |-> <<x, y>>, last |-> t]
  ELSE IF Debounced(t)
    THEN [ok |-> FALSE, rule |-> 2] @@ keep
  ELSE IF TooClose(x, y)
    THEN [ok |-> FALSE, rule |-> 3] @@ keep
  ELSE IF TooFrequent(scroll_event_count + 1, t - scroll_session_start)
    THEN [ok |-> FALSE, rule |-> 4] @@ [keep EXCEPT !.count = scroll_event_count + 1]
  ELSE [ok |-> TRUE, rule |-> 5, start |-> scroll_session_start,
        count |-> scroll_event_count + 1, position |-> <<x, y>>, last |-> t]

\* The filter's effect on the session, with the record of the call.
ApplyFilter(x, y, t) ==
  LET r == should_log_scroll(x, y, t) IN
    /\ scroll_session_start' = r.start
    /\ scroll_event_count' = r.count
    /\ scroll_last_position' = r.position
    /\ scroll_last_time' = r.last
    /\ scroll_call' = [x |-> x, y |-> y, t |-> t, ok |-> r.ok, rule |-> r.rule,
                       start |-> scroll_session_start, count |-> scroll_event_count,
                       position |-> scroll_last_position, last |-> scroll_last_time]

\* A scroll sample at (x, y), dt ticks after the previous one.
ScrollSample(dt, x, y) ==
  /\ now + dt <= MaxTime
  /\ scroll_event_count < MaxScrollCount
  /\ now' = now + dt
  /\ ApplyFilter(x, y, now + dt)
  /\ UNCHANGED <<engine_vars, shutdown_vars, lifecycle_vars, handler_vars, inspector_vars, recorder_vars, capture_vars, scroll_params, screen_vars, key_vars>>

\* ------------------------------------------------------------ Screen observer
\* Screen._mon_for: the first monitor whose rectangle holds the point, else 1.
Holds(m, x, y) ==
  /\ Mons[m].left <= x /\ x < Mons[m].left + Mons[m].width
  /\ Mons[m].top <= y /\ y < Mons[m].top + Mons[m].height

\* Mutant of mon_for: a point on no monitor has no monitor index.
mon_for_or_none(x, y) ==
  IF \E m \in MonIds : Holds(m, x, y)
    THEN CHOOSE m \in MonIds : Holds(m, x, y) /\ \A k \in MonIds : Holds(k, x, y) => m <= k
    ELSE None

mon_for_last(x, y) ==
  IF \E m \in MonIds : Holds(m, x, y)
    THEN CHOOSE m \in MonIds : Holds(m, x, y) /\ \A k \in MonIds : Holds(k, x, y) => k <= m
    ELSE Len(Mons)

mon_for(x, y) ==
  IF \E m \in MonIds : Holds(m, x, y)
    THEN CHOOSE m \in MonIds : Holds(m, x, y) /\ \A k \in MonIds : Holds(k, x, y) => m <= k
    ELSE 1

\* Mutant of skip: the guard is never consulted.
skip_never == FALSE

\* Screen._skip: the visibility guard reports a guarded window on screen.
skip == guard_visible

\* The guarded window appears or disappears.
SetGuard ==
  /\ guard_visible' = ~guard_visible
  /\ UNCHANGED <<worker, worker_idx, frames, pending_event, events, screen_updates>>
  /\ UNCHANGED <<engine_vars, shutdown_vars, lifecycle_vars, handler_vars, inspector_vars, recorder_vars, capture_vars, now, scroll_params, scroll_vars, key_vars>>

\* Screen._worker up to its capture loop: the mouse and keyboard backends start.
worker_start ==
  /\ worker = "init"
  /\ worker' = IF self_running THEN "grab" ELSE "exit"
  /\ worker_idx' = 1
  /\ backends' = [b \in Backends |-> BackendStart(backends[b])]
  /\ UNCHANGED <<frames, guard_visible, pending_event, events, screen_updates>>
  /\ UNCHANGED <<aenter, screen_stop, thread_pool>>
  /\ UNCHANGED <<engine_vars, shutdown_vars, handler_vars, inspector_vars, recorder_vars, now, scroll_params, scroll_vars, key_vars,
                 capture_vars>>

\* A backend's start(), called once more.
backend_start(b) ==
  /\ backends[b].created < MaxStarts
  /\ backends' = [backends EXCEPT ![b] = BackendStart(@)]
  /\ UNCHANGED <<aenter, screen_stop, thread_pool>>
  /\ UNCHANGED <<engine_vars, shutdown_vars, handler_vars, inspector_vars, recorder_vars, observer_vars>>

\* Screen.stop: the base class's stop, both backends stopped, the cached frames
\* dropped under the frame lock, gc.collect run on the thread pool, and the
\* thread pool shut down.
Screen_stop ==
  /\ screen_stop.calls < MaxStops
  /\ backends' = [b \in Backends |-> BackendStop(backends[b])]
  /\ frames' = [m \in MonIds |-> FALSE]
  /\ thread_pool' = IF SubmitRaises(thread_pool) THEN thread_pool ELSE "shutdown"
  /\ screen_stop' =
       [calls |-> screen_stop.calls + 1,
        outcome |-> IF SubmitRaises(thread_pool) THEN "RuntimeError" ELSE "returned",
        changed |-> \/ \E b \in Backends : backends[b].listener
                    \/ \E m \in MonIds : frames[m]
                    \/ thread_pool = "open"]
  /\ UNCHANGED <<aenter, worker, worker_idx, guard_visible, pending_event, events,
                 screen_updates>>
  /\ UNCHANGED <<engine_vars, shutdown_vars, handler_vars, inspector_vars, recorder_vars, now, scroll_params, scroll_vars, key_vars,
                 capture_vars>>

worker_grab_abort(ok) ==
  /\ worker = "grab"
  /\ frames' = IF ok THEN [frames EXCEPT ![worker_idx] = TRUE] ELSE frames
  /\ tick_grabs' = [tick_grabs EXCEPT ![worker_idx] = IF ok THEN "ok" ELSE "failed"]
  /\ IF ok /\ worker_idx < Len(Mons)
       THEN worker_idx' = worker_idx + 1 /\ UNCHANGED worker
       ELSE worker_idx' = 1 /\ worker' = IF ok THEN "check" ELSE "sleep"
  /\ UNCHANGED <<guard_visible, pending_event, events, screen_updates, stop_vars>>
  /\ UNCHANGED <<engine_vars, shutdown_vars, lifecycle_vars, handler_vars, inspector_vars, recorder_vars, now, scroll_params, scroll_vars, key_vars>>

\* The capture loop's grab of monitor worker_idx returns a frame (ok) or raises.
worker_grab(ok) ==
  /\ worker = "grab"
  /\ frames' = IF ok THEN [frames EXCEPT ![worker_idx] = TRUE] ELSE frames
  /\ tick_grabs' = [tick_grabs EXCEPT ![worker_idx] = IF ok THEN "ok" ELSE "failed"]
  /\ IF worker_idx < Len(Mons)
       THEN worker_idx' = worker_idx + 1 /\ UNCHANGED worker
       ELSE worker_idx' = 1 /\ worker' = "check"
  /\ UNCHANGED <<guard_visible, pending_event, events, screen_updates, stop_vars>>
  /\ UNCHANGED <<engine_vars, shutdown_vars, lifecycle_vars, handler_vars, inspector_vars, recorder_vars, now, scroll_params, scroll_vars, key_vars>>

\* The capture loop's sleep ends: the next tick begins, or the loop is left when
\* self._running is false.
worker_wake ==
  /\ worker = "sleep"
  /\ worker' = IF self_running THEN "grab" ELSE "exit"
  /\ tick_grabs' = [m \in MonIds |-> "none"]
  /\ UNCHANGED <<worker_idx, frames, guard_visible, pending_event, events, screen_updates,
                 stop_vars>>
  /\ UNCHANGED <<engine_vars, shutdown_vars, lifecycle_vars, handler_vars, inspector_vars, recorder_vars, now, scroll_params, scroll_vars, key_vars>>

\* The next event of the observer: events are numbered in the order they arrive.
IsNext(e) == events[e].type = "none" /\ \A k \in EventIds : k < e => events[k].type # "none"

\* flush_pending, entered right after the slot was set: the event stays in the
\* slot while its after-frame is grabbed, unless the guard drops it.
FlushEntry(e) == IF skip THEN [pc |-> "skipped", slot |-> 0] ELSE [pc |-> "grab_after", slot |-> e]

DispatchWithoutFrame(e, ev) ==
  IF skip
    THEN /\ events' = [events EXCEPT ![e] = [ev EXCEPT !.pc = "skipped"]]
         /\ UNCHANGED pending_event
  ELSE /\ events' = [events EXCEPT ![e] = [ev EXCEPT !.pc = FlushEntry(e).pc]]
       /\ pending_event' = FlushEntry(e).slot

DispatchDropsOutside(e, ev) ==
  IF skip
    THEN /\ events' = [events EXCEPT ![e] = [ev EXCEPT !.pc = "skipped"]]
         /\ UNCHANGED pending_event
  ELSE IF ~frames[ev.mon] \/ ~\E m \in MonIds : Holds(m, ev.point[1], ev.point[2])
    THEN /\ events' = [events EXCEPT ![e] = [ev EXCEPT !.pc = "no_frame"]]
         /\ UNCHANGED pending_event
  ELSE /\ events' = [events EXCEPT ![e] = [ev EXCEPT !.pc = FlushEntry(e).pc]]
       /\ pending_event' = FlushEntry(e).slot

\* mouse_event's and scroll_event's common tail: guard, cached frame, slot, flush.
Dispatch(e, ev) ==
  IF skip
    THEN /\ events' = [events EXCEPT ![e] = [ev EXCEPT !.pc = "skipped"]]
         /\ UNCHANGED pending_event
  ELSE IF ~frames[ev.mon]
    THEN /\ events' = [events EXCEPT ![e] = [ev EXCEPT !.pc = "no_frame"]]
         /\ UNCHANGED pending_event
  ELSE /\ events' = [events EXCEPT ![e] = [ev EXCEPT !.pc = FlushEntry(e).pc]]
       /\ pending_event' = FlushEntry(e).slot

\* The event record of a click or scroll at (x, y): monitor and local coordinates;
\* point and guard record where it arrived and what the guard reported then.
EventAt(typ, x, y, d, rule) ==
  LET idx == mon_for(x, y) IN
    [type |-> typ, pc |-> "new", mon |-> idx,
     position |-> <<x - Mons[idx].left, y - Mons[idx].top>>, scroll |-> d, rule |-> rule,
     point |-> <<x, y>>, guard |-> guard_visible]

\* mouse_event(x, y, typ), up to its first await.
mouse_event(e, x, y) ==
  /\ worker # "init"
  /\ IsNext(e)
  /\ Dispatch(e, EventAt("click", x, y, <<0, 0>>, 0))
  /\ UNCHANGED <<worker, worker_idx, frames, guard_visible, screen_updates>>
  /\ UNCHANGED <<engine_vars, shutdown_vars, lifecycle_vars, handler_vars, inspector_vars, recorder_vars, capture_vars, now, scroll_params, scroll_vars, key_vars>>

\* Mutant of TooSmall: no magnitude check.
TooSmallNever(d) == FALSE

\* scroll_event's magnitude guard: sqrt(dx^2 + dy^2) < 1.0.
TooSmall(d) == d[1] * d[1] + d[2] * d[2] < SCROLL_MIN_MAGNITUDE * SCROLL_MIN_MAGNITUDE

\* scroll_event(x, y, dx, dy), up to its first await; its time.time() reads now + dt.
scroll_event(e, dt, x, y, d) ==
  /\ worker # "init"
  /\ IsNext(e)
  /\ now + dt <= MaxTime
  /\ scroll_event_count < MaxScrollCount
  /\ now' = now + dt
  /\ ApplyFilter(x, y, now + dt)
  /\ LET ev == EventAt("scroll", x, y, d, should_log_scroll(x, y, now + dt).rule) IN
       IF ~should_log_scroll(x, y, now + dt).ok
         THEN /\ events' = [events EXCEPT ![e] = [ev EXCEPT !.pc = "filtered"]]
              /\ UNCHANGED pending_event
       ELSE IF TooSmall(d)
         THEN /\ events' = [events EXCEPT ![e] = [ev EXCEPT !.pc = "too_small"]]
              /\ UNCHANGED pending_event
       ELSE Dispatch(e, ev)
  /\ UNCHANGED <<worker, worker_idx, frames, guard_visible, screen_updates>>
  /\ UNCHANGED <<engine_vars, shutdown_vars, lifecycle_vars, handler_vars, inspector_vars, recorder_vars, capture_vars, scroll_params, key_vars>>

\* flush_pending: the grab of the after-frame returns (ok) or raises.
after_grabbed(e, ok) ==
  /\ events[e].pc = "grab_after"
  /\ IF ok
       THEN /\ events' = [events EXCEPT ![e].pc = "save_before"]
            /\ UNCHANGED pending_event
       ELSE /\ events' = [events EXCEPT ![e].pc = "grab_failed"]
            /\ pending_event' = 0
  /\ UNCHANGED <<worker, worker_idx, frames, guard_visible, screen_updates>>
  /\ UNCHANGED <<engine_vars, shutdown_vars, lifecycle_vars, handler_vars, inspector_vars, recorder_vars, capture_vars, now, scroll_params, scroll_vars, key_vars>>

\* flush_pending: _save_frame of the before-frame returns (ok) or raises.
before_saved(e, ok) ==
  /\ events[e].pc = "save_before"
  /\ events' = [events EXCEPT ![e].pc = IF ok THEN "save_after" ELSE "save_failed"]
  /\ UNCHANGED <<worker, worker_idx, frames, guard_visible, pending_event, screen_updates>>
  /\ UNCHANGED <<engine_vars, shutdown_vars, lifecycle_vars, handler_vars, inspector_vars, recorder_vars, capture_vars, now, scroll_params, scroll_vars, key_vars>>

\* flush_pending: _save_frame of the after-frame returns (ok) or raises; then
\* _process_and_emit puts the Update and the slot is cleared.
after_saved(e, ok) ==
  /\ events[e].pc = "save_after"
  /\ IF ok
       THEN /\ events' = [events EXCEPT ![e].pc = "emitted"]
            /\ screen_updates' = Append(screen_updates, e)
            /\ pending_event' = 0
       ELSE /\ events' = [events EXCEPT ![e].pc = "save_failed"]
            /\ UNCHANGED <<screen_updates, pending_event>>
  /\ UNCHANGED <<worker, worker_idx, frames, guard_visible>>
  /\ UNCHANGED <<engine_vars, shutdown_vars, lifecycle_vars, handler_vars, inspector_vars, recorder_vars, capture_vars, now, scroll_params, scroll_vars, key_vars>>

\* ------------------------------------------------------------ Screen observer: keys
\* The key session parameters as the CLI injects them by default.
key_activity_timeout == KEYBOARD_TIMEOUT_DEFAULT
keyboard_sample_interval_sec == KEYBOARD_SAMPLE_INTERVAL_DEFAULT

\* The next key event: key events are numbered in the order they arrive.
IsNextKey(k) == keys[k].pc = "new" /\ \A j \in KeyIds : j < k => keys[j].pc # "new"

\* _key_activity_lock: whether acquire() returns at once; who has the lock after
\* release() (the first waiter, if any) and who still waits.
KeyLockFree == key_lock = 0 /\ key_lock_waiters = <<>>
KeyLockNext == IF key_lock_waiters = <<>> THEN 0 ELSE Head(key_lock_waiters)
KeyLockRest == IF key_lock_waiters = <<>> THEN <<>> ELSE Tail(key_lock_waiters)

\* Mutant of Collapsed: nothing is dropped from the list.
CollapsedKeepsAll(shots) == shots

\* The list _cleanup_key_screenshots leaves, and the files it removes.
Collapsed(shots) == IF Len(shots) <= 2 THEN shots ELSE <<shots[1], shots[Len(shots)]>>
Intermediate(shots) == {shots[i] : i \in 2..(Len(shots) - 1)}

\* The session a key event or a tick ends, as it was when it ended.
SessionEnd(by, t, after) ==
  [by |-> by, t |-> t, start |-> key_activity_start, last_event |-> key_last_event,
   shots |-> key_screenshots, after |-> after, files |-> key_files]

\* Mutant of ShouldSample: every key of a burst is sampled.
ShouldSampleAlways(t) == TRUE

\* key_token_event, continuing burst: whether the key at clock reading t is sampled.
ShouldSample(t) ==
  \/ last_key_screenshot_time = None
  \/ t - last_key_screenshot_time >= keyboard_sample_interval_sec

\* key_token_event under _key_activity_lock, up to its _save_frame or its end:
\* key event k, on monitor idx at the local position pos, reads the clock as t.
KeyBody(k, idx, pos, t) ==
  LET fr == frames[idx]
      expired == key_activity_start = None \/ t - key_activity_start > key_activity_timeout
      saves == fr /\ (expired \/ ShouldSample(t))
      key == [pc |-> IF saves THEN (IF expired THEN "save_first" ELSE "save_inter") ELSE "done",
              t |-> t, mon |-> idx, position |-> pos, fr |-> fr,
              branch |-> IF expired THEN "first" ELSE "intermediate",
              guard |-> IF keys[k].pc = "lock_wait" THEN keys[k].guard ELSE guard_visible]
  IN
  /\ keys' = [keys EXCEPT ![k] = key]
  /\ key_last_event' = t
  /\ key_activity_start' = IF expired THEN t ELSE key_activity_start
  /\ key_screenshots' = IF expired THEN <<>> ELSE key_screenshots
  /\ key_end' = IF expired /\ key_activity_start # None /\ Len(key_screenshots) >= 1
                  THEN SessionEnd("key", t, <<>>) ELSE key_end
  /\ last_key_screenshot_time' = IF expired /\ ~fr THEN t ELSE last_key_screenshot_time
  /\ last_key_position' = IF expired /\ ~fr THEN <<pos[1], pos[2], idx>> ELSE last_key_position
  /\ cleanup_tasks' = IF ~saves /\ Len(key_screenshots') > 2
                        THEN cleanup_tasks + 1 ELSE cleanup_tasks
  /\ IF saves
       THEN key_lock' = k /\ key_lock_waiters' = key_lock_waiters
       ELSE key_lock' = KeyLockNext /\ key_lock_waiters' = KeyLockRest
  /\ UNCHANGED <<to_delete, key_files, key_log, tick_time, key_collapse>>

\* A key arrives with the pointer at p: key_token_event puts its Update, then
\* takes _key_activity_lock, at once when it is free.
key_token_event(k, p, dt) ==
  LET idx == mon_for(p[1], p[2])
      pos == <<p[1] - Mons[idx].left, p[2] - Mons[idx].top>>
  IN
  /\ worker # "init"
  /\ IsNextKey(k)
  /\ IF idx = None
       THEN /\ keys' = [keys EXCEPT ![k] = [NoKey EXCEPT !.pc = "no_monitor"]]
            /\ UNCHANGED <<now, key_activity_start, key_screenshots, last_key_screenshot_time,
                           last_key_position, key_lock, key_lock_waiters, key_updates,
                           cleanup_tasks, to_delete, key_files, key_log, key_last_event,
                           key_end, tick_time, key_collapse>>
     ELSE IF KeyLockFree
       THEN /\ now + dt <= MaxTime
            /\ now' = now + dt
            /\ key_updates' = Append(key_updates, k)
            /\ KeyBody(k, idx, pos, now + dt)
       ELSE /\ keys' = [keys EXCEPT ![k] = [NoKey EXCEPT !.pc = "lock_wait", !.mon = idx,
                                                         !.position = pos,
                                                         !.guard = guard_visible]]
            /\ key_updates' = Append(key_updates, k)
            /\ key_lock_waiters' = Append(key_lock_waiters, k)
            /\ UNCHANGED <<now, key_activity_start, key_screenshots, last_key_screenshot_time,
                           last_key_position, key_lock, cleanup_tasks, to_delete, key_files,
                           key_log, key_last_event, key_end, tick_time, key_collapse>>
  /\ UNCHANGED <<engine_vars, shutdown_vars, lifecycle_vars, handler_vars, inspector_vars, recorder_vars, capture_vars, scroll_params, scroll_vars, screen_vars>>

\* A key event that waited for _key_activity_lock gets it.
key_locked(k, dt) ==
  /\ keys[k].pc = "lock_wait"
  /\ key_lock = k
  /\ now + dt <= MaxTime
  /\ now' = now + dt
  /\ KeyBody(k, keys[k].mon, keys[k].position, now + dt)
  /\ UNCHANGED <<engine_vars, shutdown_vars, lifecycle_vars, handler_vars, inspector_vars, recorder_vars, capture_vars, scroll_params, scroll_vars, screen_vars, key_updates>>

\* The _save_frame of key event k returns (ok) or raises: on return the screenshot
\* is appended and the sample bookkeeping updated, and a list longer than 2 gets
\* a cleanup task; then the lock is released.
key_saved(k, ok) ==
  LET tag == IF keys[k].pc = "save_first" THEN "first" ELSE "intermediate"
      shot == [k |-> k, tag |-> tag, t |-> keys[k].t, start |-> key_activity_start,
               since |-> last_key_screenshot_time]
  IN
  /\ keys[k].pc \in {"save_first", "save_inter"}
  /\ keys' = [keys EXCEPT ![k].pc = IF ok THEN "done" ELSE "failed"]
  /\ IF ok
       THEN /\ key_screenshots' = Append(key_screenshots, shot)
            /\ key_files' = key_files \cup {shot}
            /\ key_log' = key_log \cup {shot}
            /\ last_key_screenshot_time' = keys[k].t
            /\ last_key_position' = <<keys[k].position[1], keys[k].position[2], keys[k].mon>>
            /\ cleanup_tasks' = IF Len(key_screenshots') > 2
                                  THEN cleanup_tasks + 1 ELSE cleanup_tasks
       ELSE UNCHANGED <<key_screenshots, key_files, key_log, last_key_screenshot_time,
                        last_key_position, cleanup_tasks>>
  /\ key_lock' = KeyLockNext
  /\ key_lock_waiters' = KeyLockRest
  /\ UNCHANGED <<key_activity_start, key_updates, to_delete, key_last_event, key_end,
                 tick_time, key_collapse>>
  /\ UNCHANGED <<engine_vars, shutdown_vars, lifecycle_vars, handler_vars, inspector_vars, recorder_vars, capture_vars, now, scroll_params, scroll_vars, screen_vars>>

\* A _cleanup_key_screenshots task runs up to its first os.remove: a list longer
\* than 2 is collapsed to [first, last].
cleanup_key_screenshots ==
  /\ cleanup_tasks > 0
  /\ cleanup_tasks' = cleanup_tasks - 1
  /\ key_screenshots' = Collapsed(key_screenshots)
  /\ to_delete' = to_delete \cup Intermediate(key_screenshots)
  /\ key_collapse' = IF Len(key_screenshots) > 2
                       THEN [before |-> key_screenshots, after |-> key_screenshots']
                       ELSE key_collapse
  /\ UNCHANGED <<key_activity_start, last_key_screenshot_time, last_key_position, key_lock,
                 key_lock_waiters, keys, key_updates, key_files, key_log, key_last_event,
                 key_end, tick_time>>
  /\ UNCHANGED <<engine_vars, shutdown_vars, lifecycle_vars, handler_vars, inspector_vars, recorder_vars, capture_vars, now, scroll_params, scroll_vars, screen_vars>>

\* An os.remove of a cleanup returns.
cleanup_remove(f) ==
  /\ f \in to_delete
  /\ to_delete' = to_delete \ {f}
  /\ key_files' = key_files \ {f}
  /\ UNCHANGED <<key_activity_start, key_screenshots, last_key_screenshot_time,
                 last_key_position, key_lock, key_lock_waiters, keys, key_updates,
                 cleanup_tasks, key_log, key_last_event, key_end, tick_time, key_collapse>>
  /\ UNCHANGED <<engine_vars, shutdown_vars, lifecycle_vars, handler_vars, inspector_vars, recorder_vars, capture_vars, now, scroll_params, scroll_vars, screen_vars>>

\* The capture loop closes the key session under _key_activity_lock: the final
\* screenshot, if one was saved, is appended, the list is collapsed and its other
\* files removed, and the session state is cleared.
CloseSession(final) ==
  LET shots == key_screenshots \o final IN
  /\ key_end' = SessionEnd("tick", tick_time, Collapsed(shots))
  /\ key_collapse' = IF Len(shots) > 2
                       THEN [before |-> shots, after |-> Collapsed(shots)] ELSE key_collapse
  /\ key_files' = (key_files \cup {final[i] : i \in 1..Len(final)}) \ Intermediate(shots)
  /\ key_log' = key_log \cup {final[i] : i \in 1..Len(final)}
  /\ key_activity_start' = None
  /\ key_screenshots' = <<>>
  /\ last_key_screenshot_time' = None
  /\ last_key_position' = NoKeyPosition
  /\ key_lock' = KeyLockNext
  /\ key_lock_waiters' = KeyLockRest
  /\ worker' = "sleep"

\* The capture loop has _key_activity_lock: it saves the final screenshot when
\* the last key position has a cached frame, else it closes the session at once.
CloseBegin ==
  IF last_key_position # NoKeyPosition /\ frames[last_key_position[3]]
    THEN /\ worker' = "final_save"
         /\ key_lock' = LoopHolder
         /\ UNCHANGED <<key_activity_start, key_screenshots, last_key_screenshot_time,
                        last_key_position, key_lock_waiters, key_files, key_log, key_end,
                        key_collapse>>
    ELSE CloseSession(<<>>)

\* The capture loop's expiry check after the grabs of a tick: a session that
\* started more than the timeout ago and has retained a screenshot is closed.
worker_check(dt) ==
  /\ worker = "check"
  /\ IF key_activity_start = None
       THEN /\ worker' = "sleep"
            /\ UNCHANGED <<now, key_vars>>
       ELSE /\ now + dt <= MaxTime
            /\ now' = now + dt
            /\ IF now + dt - key_activity_start > key_activity_timeout
                    /\ Len(key_screenshots) >= 1
                 THEN /\ tick_time' = now + dt
                      /\ IF KeyLockFree
                           THEN CloseBegin
                           ELSE /\ worker' = "lock_wait"
                                /\ key_lock_waiters' = Append(key_lock_waiters, LoopHolder)
                                /\ UNCHANGED <<key_activity_start, key_screenshots,
                                               last_key_screenshot_time, last_key_position,
                                               key_lock, key_files, key_log, key_end,
                                               key_collapse>>
                 ELSE /\ worker' = "sleep"
                      /\ UNCHANGED <<key_activity_start, key_screenshots,
                                     last_key_screenshot_time, last_key_position, key_lock,
                                     key_lock_waiters, key_files, key_log, key_end,
                                     tick_time, key_collapse>>
            /\ UNCHANGED <<keys, key_updates, cleanup_tasks, to_delete, key_last_event>>
  /\ UNCHANGED <<worker_idx, frames, guard_visible, pending_event, events, screen_updates>>
  /\ UNCHANGED <<engine_vars, shutdown_vars, lifecycle_vars, handler_vars, inspector_vars, recorder_vars, capture_vars, scroll_params, scroll_vars>>

\* The capture loop, which waited for _key_activity_lock, gets it.
worker_locked ==
  /\ worker = "lock_wait"
  /\ key_lock = LoopHolder
  /\ CloseBegin
  /\ UNCHANGED <<keys, key_updates, cleanup_tasks, to_delete, key_last_event, tick_time>>
  /\ UNCHANGED <<worker_idx, frames, guard_visible, pending_event, events, screen_updates>>
  /\ UNCHANGED <<engine_vars, shutdown_vars, lifecycle_vars, handler_vars, inspector_vars, recorder_vars, capture_vars, now, scroll_params, scroll_vars>>

\* The _save_frame of the final screenshot returns (ok) or raises.
worker_final_saved(ok) ==
  /\ worker = "final_save"
  /\ CloseSession(IF ok THEN <<[k |-> 0, tag |-> "final", t |-> tick_time,
                                start |-> key_activity_start,
                                since |-> last_key_screenshot_time]>>
                        ELSE <<>>)
  /\ UNCHANGED <<keys, key_updates, cleanup_tasks, to_delete, key_last_event, tick_time>>
  /\ UNCHANGED <<worker_idx, frames, guard_visible, pending_event, events, screen_updates>>
  /\ UNCHANGED <<engine_vars, shutdown_vars, lifecycle_vars, handler_vars, inspector_vars, recorder_vars, capture_vars, now, scroll_params, scroll_vars>>

\* ------------------------------------------------------------ the capture loop's exit
\* self._running is cleared (by the observer's stop, outside this class).
clear_running ==
  /\ self_running
  /\ self_running' = FALSE
  /\ UNCHANGED <<tick_grabs, stop_ev, stop_log>>
  /\ UNCHANGED <<engine_vars, shutdown_vars, lifecycle_vars, handler_vars, inspector_vars, recorder_vars, now, scroll_params, scroll_vars, screen_vars, key_vars>>

\* What ends the stop-time flush_pending once it awaits: its Update is put, the
\* grab of the after-frame raises, or a _save_frame raises.
FlushOutcomes == {"emitted", "grab_failed", "raised"}

\* After the loop: flush_pending up to its first await.  An event still in the
\* slot is flushed again, unless the guard drops it.
stop_flush_begin ==
  /\ worker = "exit"
  /\ stop_log' = Append(stop_log, "flush")
  /\ IF pending_event = 0
       THEN /\ stop_ev' = [stop_ev EXCEPT !.outcome = "no_event"]
            /\ worker' = "finally"
            /\ UNCHANGED pending_event
     ELSE IF skip
       THEN /\ stop_ev' = [stop_ev EXCEPT !.ev = pending_event, !.outcome = "skipped"]
            /\ worker' = "finally"
            /\ pending_event' = 0
     ELSE /\ stop_ev' = [stop_ev EXCEPT !.ev = pending_event, !.outcome = "flushing"]
          /\ worker' = "stop_flush"
          /\ UNCHANGED pending_event
  /\ UNCHANGED <<worker_idx, frames, guard_visible, events, screen_updates, tick_grabs, self_running>>
  /\ UNCHANGED <<engine_vars, shutdown_vars, lifecycle_vars, handler_vars, inspector_vars, recorder_vars, now, scroll_params, scroll_vars, key_vars>>

\* Mutant of stop_flush_end: an exception of the flush ends the task at once.
stop_flush_end_unprotected(outcome) ==
  /\ worker = "stop_flush"
  /\ stop_ev' = [stop_ev EXCEPT !.outcome = outcome]
  /\ worker' = IF outcome = "raised" THEN "stopped" ELSE "finally"
  /\ screen_updates' = IF outcome = "emitted" THEN Append(screen_updates, stop_ev.ev)
                       ELSE screen_updates
  /\ pending_event' = IF outcome = "raised" THEN pending_event ELSE 0
  /\ UNCHANGED <<worker_idx, frames, guard_visible, events, tick_grabs, self_running, stop_log>>
  /\ UNCHANGED <<engine_vars, shutdown_vars, lifecycle_vars, handler_vars, inspector_vars, recorder_vars, now, scroll_params, scroll_vars, key_vars>>

\* The stop-time flush_pending ends: after the grab and the two saves it puts the
\* event's Update and clears the slot; a failing grab clears the slot; an
\* exception of _save_frame leaves flush_pending, and the finally block follows.
stop_flush_end(outcome) ==
  /\ worker = "stop_flush"
  /\ stop_ev' = [stop_ev EXCEPT !.outcome = outcome]
  /\ worker' = "finally"
  /\ screen_updates' = IF outcome = "emitted" THEN Append(screen_updates, stop_ev.ev)
                       ELSE screen_updates
  /\ pending_event' = IF outcome = "raised" THEN pending_event ELSE 0
  /\ UNCHANGED <<worker_idx, frames, guard_visible, events, tick_grabs, self_running, stop_log>>
  /\ UNCHANGED <<engine_vars, shutdown_vars, lifecycle_vars, handler_vars, inspector_vars, recorder_vars, now, scroll_params, scroll_vars, key_vars>>

\* The finally block up to its first await: both backends are stopped; with a
\* key session of more than one screenshot _key_activity_lock is taken.
stop_finally ==
  /\ worker = "finally"
  /\ backends' = [b \in Backends |-> BackendStop(backends[b])]
  /\ stop_log' = Append(stop_log, "backends")
  /\ stop_ev' = [stop_ev EXCEPT !.needed = key_activity_start # None
                                           /\ Len(key_screenshots) > 1]
  /\ IF key_activity_start # None /\ Len(key_screenshots) > 1
       THEN IF KeyLockFree
              THEN /\ worker' = "stop_rename"
                   /\ key_lock' = LoopHolder
                   /\ UNCHANGED key_lock_waiters
              ELSE /\ worker' = "stop_lock_wait"
                   /\ key_lock_waiters' = Append(key_lock_waiters, LoopHolder)
                   /\ UNCHANGED key_lock
       ELSE /\ worker' = "stopped"
            /\ UNCHANGED <<key_lock, key_lock_waiters>>
  /\ UNCHANGED <<key_activity_start, key_screenshots, last_key_screenshot_time,
                 last_key_position, keys, key_updates, cleanup_tasks, to_delete, key_files,
                 key_log, key_last_event, key_end, tick_time, key_collapse>>
  /\ UNCHANGED <<worker_idx, frames, guard_visible, pending_event, events, screen_updates>>
  /\ UNCHANGED <<aenter, screen_stop, thread_pool, tick_grabs, self_running>>
  /\ UNCHANGED <<engine_vars, shutdown_vars, handler_vars, inspector_vars, recorder_vars, now, scroll_params, scroll_vars>>

\* The exiting loop, which waited for _key_activity_lock, gets it.
stop_locked ==
  /\ worker = "stop_lock_wait"
  /\ key_lock = LoopHolder
  /\ worker' = "stop_rename"
  /\ UNCHANGED <<worker_idx, frames, guard_visible, pending_event, events, screen_updates>>
  /\ UNCHANGED <<engine_vars, shutdown_vars, lifecycle_vars, handler_vars, inspector_vars, recorder_vars, capture_vars, now, scroll_params, scroll_vars, key_vars>>

\* The os.rename of the last screenshot returns (ok) or raises OSError; then
\* _cleanup_key_screenshots collapses the list and removes its other files, and
\* the lock is released.  The list keeps the old name of the renamed file.  An
\* empty list makes key_screenshots[-1] raise IndexError.
stop_renamed(ok) ==
  LET n == Len(key_screenshots)
      last == key_screenshots[n]
      final == [last EXCEPT !.tag = "final"]
  IN
  /\ worker = "stop_rename"
  /\ worker' = "stopped"
  /\ stop_log' = Append(stop_log, "cleanup")
  /\ key_lock' = KeyLockNext
  /\ key_lock_waiters' = KeyLockRest
  /\ IF n = 0
       THEN /\ stop_ev' = [stop_ev EXCEPT !.renamed = "IndexError"]
            /\ UNCHANGED <<key_screenshots, key_files, key_collapse>>
       ELSE /\ stop_ev' = [stop_ev EXCEPT !.renamed = IF ok THEN "ok" ELSE "OSError",
                                          !.before = key_screenshots]
            /\ key_screenshots' = Collapsed(key_screenshots)
            /\ key_files' = (IF ok /\ last.tag = "intermediate"
                               THEN (key_files \ {last}) \cup {final} ELSE key_files)
                            \ Intermediate(key_screenshots)
            /\ key_collapse' = IF n > 2
                                 THEN [before |-> key_screenshots,
                                       after |-> Collapsed(key_screenshots)]
                                 ELSE key_collapse
  /\ UNCHANGED <<key_activity_start, last_key_screenshot_time, last_key_position, keys,
                 key_updates, cleanup_tasks, to_delete, key_log, key_last_event, key_end,
                 tick_time>>
  /\ UNCHANGED <<worker_idx, frames, guard_visible, pending_event, events, screen_updates>>
  /\ UNCHANGED <<tick_grabs, self_running>>
  /\ UNCHANGED <<engine_vars, shutdown_vars, lifecycle_vars, handler_vars, inspector_vars, recorder_vars, now, scroll_params, scroll_vars>>

\* ------------------------------------------------------------ specifications
\* The dispatch engine with its observers' emissions.
Init == EngineInit /\ ScreenInit /\ scroll_debounce_sec = SCROLL_DEBOUNCE_SEC_DEFAULT

Next ==
  \/ start_update_loop
  \/ \E o \in Observers : Emit(o)
  \/ RunTask
  \/ BodyEnds

Spec == Init /\ [][Next]_vars

\* The scroll session filter under every sequence of scroll samples.
ScrollInit == EngineInit /\ max_concurrent_updates = 1 /\ ScreenInit

ScrollNext == \E dt \in TimeSteps, p \in ScrollPoints : ScrollSample(dt, p[1], p[2])

ScrollSpec == ScrollInit /\ [][ScrollNext]_vars

\* The Screen observer: capture loop, clicks and scrolls.  Every grab succeeds;
\* failing grabs are followed in CaptureSpec.
ScreenSpecInit ==
  EngineInit /\ max_concurrent_updates = 1 /\ ScreenInit
  /\ scroll_debounce_sec = SCROLL_DEBOUNCE_SEC_DEFAULT

ScreenNext ==
  \/ SetGuard
  \/ worker_start
  \/ worker_grab(TRUE)
  \/ worker_wake
  \/ \E dt \in CheckTimeSteps : worker_check(dt)
  \/ \E e \in EventIds, p \in ClickPoints : mouse_event(e, p[1], p[2])
  \/ \E e \in EventIds, dt \in ScreenTimeSteps, p \in ScreenScrollPoints, d \in ScrollDeltas :
       scroll_event(e, dt, p[1], p[2], d)
  \/ \E e \in EventIds, ok \in BOOLEAN : after_grabbed(e, ok)
  \/ \E e \in EventIds, ok \in BOOLEAN : before_saved(e, ok)
  \/ \E e \in EventIds, ok \in BOOLEAN : after_saved(e, ok)

ScreenSpec == ScreenSpecInit /\ [][ScreenNext]_vars

\* The Screen observer: capture loop and key events.  Every grab succeeds, so a
\* monitor has no cached frame only until its first grab.
KeyNext ==
  \/ worker_start
  \/ worker_grab(TRUE)
  \/ worker_wake
  \/ \E dt \in CheckTimeSteps : worker_check(dt)
  \/ worker_locked
  \/ \E ok \in BOOLEAN : worker_final_saved(ok)
  \/ \E k \in KeyIds, p \in KeyPoints, dt \in KeyTimeSteps : key_token_event(k, p, dt)
  \/ \E k \in KeyIds, dt \in KeyTimeSteps : key_locked(k, dt)
  \/ \E k \in KeyIds, ok \in BOOLEAN : key_saved(k, ok)
  \/ cleanup_key_screenshots
  \/ \E f \in to_delete : cleanup_remove(f)

KeySpec == ScreenSpecInit /\ [][KeyNext]_vars

\* The event loop keeps running ready tasks, and every handler body terminates.
HandlerNext ==
  \E o \in Observers, update \in Updates, insp \in Inspectors, ok \in BOOLEAN :
    default_handler(o, update, insp, ok)

HandlerSpec == ScreenSpecInit /\ [][HandlerNext]_vars

\* The capture loop with failing grabs, the guard, and clicks up to the slot.
CaptureNext ==
  \/ SetGuard
  \/ worker_start
  \/ \E ok \in BOOLEAN : worker_grab(ok)
  \/ worker_wake
  \/ \E dt \in CheckTimeSteps : worker_check(dt)
  \/ \E e \in EventIds, p \in ClickPoints : mouse_event(e, p[1], p[2])

CaptureSpec == ScreenSpecInit /\ [][CaptureNext]_vars

\* The guard with clicks, scrolls and the first two keys arriving while it
\* changes.
GuardKeyIds == {k \in KeyIds : k <= 2}
GuardNext ==
  \/ SetGuard
  \/ worker_start
  \/ worker_grab(TRUE)
  \/ \E e \in EventIds : mouse_event(e, 250, 50)
  \/ \E e \in EventIds : scroll_event(e, 6, 100, 100, <<0, 10>>)
  \/ \E e \in EventIds, ok \in BOOLEAN : after_grabbed(e, ok)
  \/ \E e \in EventIds : before_saved(e, TRUE)
  \/ \E e \in EventIds : after_saved(e, TRUE)
  \/ \E k \in GuardKeyIds : key_token_event(k, <<250, 50>>, 6)
  \/ \E k \in GuardKeyIds : key_locked(k, 6)
  \/ \E k \in GuardKeyIds, ok \in BOOLEAN : key_saved(k, ok)

GuardSpec == ScreenSpecInit /\ [][GuardNext]_vars

\* The capture loop leaving its loop while a click is in flight and keys arrive.
StopEventIds == {e \in EventIds : e <= 1}
StopKeyIds == {k \in KeyIds : k <= 3}
StopNext ==
  \/ SetGuard
  \/ worker_start
  \/ worker_grab(TRUE)
  \/ worker_check(0)
  \/ worker_wake
  \/ \E e \in StopEventIds : mouse_event(e, 250, 50)
  \/ \E e \in StopEventIds : after_grabbed(e, TRUE)
  \/ \E e \in StopEventIds : before_saved(e, TRUE)
  \/ \E e \in StopEventIds : after_saved(e, TRUE)
  \/ \E k \in StopKeyIds : key_token_event(k, <<250, 50>>, 6)
  \/ \E k \in StopKeyIds : key_locked(k, 6)
  \/ \E k \in StopKeyIds : key_saved(k, TRUE)
  \/ cleanup_key_screenshots
  \/ clear_running
  \/ stop_flush_begin
  \/ \E outcome \in FlushOutcomes : stop_flush_end(outcome)
  \/ stop_finally
  \/ stop_locked
  \/ \E ok \in BOOLEAN : stop_renamed(ok)

StopSpec == ScreenSpecInit /\ [][StopNext]_vars

\* Starting and stopping: the fan-in loop, the capture loop with its backends,
\* and Screen.stop.
LifecycleNext ==
  \/ start_update_loop
  \/ update_loop
  \/ \E o \in Observers, r \in 1..(MaxUpdates + 2) : QueueGet(o, r)
  \/ worker_start
  \/ \E ok \in BOOLEAN : worker_grab(ok)
  \/ \E dt \in CheckTimeSteps : worker_check(dt)
  \/ worker_wake
  \/ \E b \in Backends : backend_start(b)
  \/ Screen_stop

LifecycleSpec == ScreenSpecInit /\ [][LifecycleNext]_vars

\* A Gum with max_concurrent_updates = 1.
ShutdownInit == Init /\ max_concurrent_updates = 1

\* The engine entered through __aenter__: one permit, Updates from the first
\* observer.
StartupNext ==
  \/ \E db_ok \in BOOLEAN, to_thread \in BOOLEAN, has_prime \in BOOLEAN,
        prime \in PrimeOutcomes : aenter_call(db_ok, to_thread, has_prime, prime)
  \/ Emit(1)
  \/ RunTask
  \/ BodyEnds

StartupSpec == ShutdownInit /\ [][StartupNext]_vars

\* The engine with its shutdown: one permit, Updates from the first observer.
ShutdownNext ==
  \/ start_update_loop
  \/ Emit(1)
  \/ RunTask
  \/ BodyEnds
  \/ aexit_begin
  \/ AexitSteps

ShutdownSpec == ShutdownInit /\ [][ShutdownNext]_vars

\* gum.__init__(user_name, *observers): an engine built with no observer, or
\* with every observer of the model.
RegisteredSets == {{}, Observers}

\* The engine with its shutdown, built with or without observers.
FailingLoopInit ==
  /\ \E registered \in RegisteredSets : EngineInitFor(registered)
  /\ ScreenInit
  /\ scroll_debounce_sec = SCROLL_DEBOUNCE_SEC_DEFAULT
  /\ max_concurrent_updates = 1

FailingLoopSpec == FailingLoopInit /\ [][ShutdownNext]_vars

\* BackgroundRecorder driven from one controlling thread, with its recorder
\* threads.
RecorderNext ==
  \/ BackgroundRecorder_start
  \/ BackgroundRecorder_stop
  \/ stop_joined
  \/ \E i \in RecordingIds : thread_run(i)
  \/ \E i \in RecordingIds, fails \in BOOLEAN : thread_run_ends(i, fails)
  \/ \E i \in RecordingIds : thread_finally(i)
  \/ \E i \in RecordingIds : thread_reset(i)

RecorderSpec == ShutdownInit /\ [][RecorderNext]_vars

\* Ready tasks are run, handler bodies terminate, and observers stop.
ShutdownFairSpec ==
  ShutdownSpec /\ WF_vars(RunTask) /\ WF_vars(BodyEnds) /\ WF_vars(AexitSteps)

FairSpec == Spec /\ WF_vars(RunTask) /\ WF_vars(BodyEnds)

\* The event loop keeps running ready tasks; handler bodies may never terminate.
LoopFairSpec == Spec /\ WF_vars(RunTask)

\* ------------------------------------------------------------ claims: engine
\* Tasks that hold a permit of _update_sem: inside `async with self._update_sem`.
PermitHolders == {u \in UpdateIds : h_state[u] \in {"granted", "running", "returning", "raising"}}

\* C1: at every moment the number of handling tasks inside the handler body
\* (holding a permit of _update_sem) is at most max_concurrent_updates.
C1_AtMostMaxConcurrent == Cardinality(PermitHolders) <= max_concurrent_updates

\* A burst: every permit is held by a running body and further tasks wait.
C1_Witness ==
  /\ Cardinality({u \in UpdateIds : h_state[u] = "running"}) = max_concurrent_updates
  /\ sem_waiters # <<>>

\* An Update that can still reach a handling task: emitted and not yet put, in its
\* observer's queue, or held by a get() task whose result the loop will read.
OnItsWay(u) ==
  \/ \E i \in 1..Len(runq) : runq[i] = PutTask(upd_src[u], u)
  \/ \E i \in 1..Len(update_queue[upd_src[u]]) : update_queue[upd_src[u]][i] = u
  \/ <<upd_src[u], round, u>> \in got

\* C2: every emitted Update is handed to exactly one handling task: none is lost
\* and none is handled twice.
C2_HandedToExactlyOneTask ==
  \A u \in UpdateIds : upd_src[u] # 0 =>
    \/ spawned[u] = 0 /\ OnItsWay(u)
    \/ spawned[u] = 1 /\ ~OnItsWay(u)

\* C3: if every handler body terminates, every handling task the loop spawned
\* eventually gets a permit and runs its handler body to completion.
C3_EverySpawnedTaskCompletes ==
  \A u \in UpdateIds : (h_state[u] # "none") ~> (h_state[u] \in {"done", "failed"})

\* More tasks were spawned than there are permits, and all of them have completed.
C3_Witness ==
  /\ Cardinality({u \in UpdateIds : h_state[u] \in {"done", "failed"}}) > max_concurrent_updates
  /\ \A u \in UpdateIds : h_state[u] \in {"done", "failed"}

Called == scroll_call.t # None
CallExpired ==
  scroll_call.start = None \/ scroll_call.t - scroll_call.start > scroll_session_timeout
CallTooSoon ==
  scroll_call.last # None /\ scroll_call.t - scroll_call.last < scroll_debounce_sec
CallDistanceSq ==
  (scroll_call.x - scroll_call.position[1]) * (scroll_call.x - scroll_call.position[1])
    + (scroll_call.y - scroll_call.position[2]) * (scroll_call.y - scroll_call.position[2])
CallTooNear ==
  scroll_call.position # NoPosition /\ CallDistanceSq < scroll_min_distance * scroll_min_distance
CallDuration == scroll_call.t - scroll_call.start
SessionUntouched ==
  /\ scroll_session_start = scroll_call.start
  /\ scroll_event_count = scroll_call.count
  /\ scroll_last_position = scroll_call.position
  /\ scroll_last_time = scroll_call.last

\* C6: a sample that finds no session, or a session started more than
\* session_timeout ago, is accepted whatever the other rules say, and starts a new
\* session: count 0, start, last time and last position set to the sample.
C6_NewSessionAlwaysAccepted ==
  (Called /\ CallExpired) =>
    /\ scroll_call.ok
    /\ scroll_session_start = scroll_call.t
    /\ scroll_event_count = 0
    /\ scroll_last_time = scroll_call.t
    /\ scroll_last_position = <<scroll_call.x, scroll_call.y>>

\* A session expired by a sample that comes within the debounce of the last accepted
\* sample, at the same position, after other samples were counted: it is accepted.
C6_Witness ==
  /\ Called /\ scroll_call.start # None /\ CallExpired
  /\ CallTooSoon /\ CallTooNear /\ scroll_call.count > 0
  /\ scroll_call.ok

\* C7: in an ongoing session a sample less than debounce_sec after the last
\* accepted sample is rejected, and the session is left as it was.
C7_DebounceRejects ==
  (Called /\ ~CallExpired /\ CallTooSoon) => (~scroll_call.ok /\ SessionUntouched)

\* Accepted at t = 0.0 s, then a sample far away at t = 0.3 s, debounce 0.5 s.
C7_Witness ==
  /\ Called /\ scroll_debounce_sec = 10
  /\ scroll_call.start = 0 /\ scroll_call.last = 0 /\ scroll_call.t = 6
  /\ ~CallTooNear
  /\ ~scroll_call.ok

\* C8: in an ongoing session a sample that is not debounced but is nearer than
\* min_distance to the last accepted position is rejected, and neither the count
\* nor the last time or position changes.
C8_MinDistanceRejects ==
  (Called /\ ~CallExpired /\ ~CallTooSoon /\ CallTooNear) =>
    (~scroll_call.ok /\ SessionUntouched)

\* (100,100) accepted, then (102,101) after the debounce, min_distance 5.
C8_Witness ==
  /\ Called /\ ~CallExpired /\ ~CallTooSoon
  /\ scroll_debounce_sec = 10 /\ scroll_min_distance = 5
  /\ scroll_call.position = <<100, 100>> /\ scroll_call.x = 102 /\ scroll_call.y = 101
  /\ ~scroll_call.ok

\* The call passed rules 1-3, so the count was incremented and rule 4 decided.
CallCounted == Called /\ ~CallExpired /\ ~CallTooSoon /\ ~CallTooNear

C11_AcceptedAtLeastDebounceApart ==
  (Called /\ scroll_call.ok /\ scroll_call.last # None) =>
    scroll_call.t - scroll_call.last >= scroll_debounce_sec

\* ------------------------------------------------------------ claims: key events
\* The number of Updates key event k has put on update_queue.
KeyUpdates(k) == Cardinality({i \in 1..Len(key_updates) : key_updates[i] = k})
\* The screenshots taken by key events, as <<key event, tag, clock reading>>.
KeyShots == {<<s.k, s.tag, s.t>> : s \in {x \in key_log : x.tag # "final"}}

\* C12: every key event delivered to the key handler has put exactly one Update
\* on the output queue, whatever the frame cache, the key session and the
\* screenshots (and a key not delivered yet has put none).
C12_EveryKeyOneUpdate ==
  \A k \in KeyIds : KeyUpdates(k) = IF keys[k].pc = "new" THEN 0 ELSE 1

\* A key that arrived with the pointer on no monitor and without a cached frame,
\* and for which no screenshot was taken.
C12_Witness ==
  \E k \in KeyIds :
    /\ keys[k].pc = "done" /\ ~keys[k].fr /\ keys[k].position = <<500, 50>>
    /\ \A s \in key_log : s.k # k
    /\ KeyUpdates(k) = 1

\* The example burst: three keys of one session, read at t0, t0 + 0.1 s and
\* t0 + 0.3 s, each with a cached frame and no failed save.
ExampleBurst ==
  /\ \A k \in 1..3 : keys[k].pc = "done" /\ keys[k].fr
  /\ keys[1].branch = "first" /\ keys[2].branch = "intermediate"
  /\ keys[3].branch = "intermediate"
  /\ keys[2].t = keys[1].t + 2 /\ keys[3].t = keys[1].t + 6
  /\ <<1, "first", keys[1].t>> \in KeyShots

\* C13: an intermediate screenshot is taken only when at least sample_interval has
\* passed since every earlier screenshot of its session; and in the example
\* burst exactly the first screenshot and one intermediate at t0 + 0.3 s are taken.
C13_IntermediateOnlyAfterInterval ==
  /\ \A s, s2 \in key_log :
       (/\ s.tag = "intermediate" /\ s2.tag # "final"
        /\ s2.start = s.start /\ s2 # s /\ s2.t <= s.t)
         => s.t - s2.t >= keyboard_sample_interval_sec
  /\ ExampleBurst =>
       {x \in KeyShots : x[1] \in 1..3} =
         {<<1, "first", keys[1].t>>, <<3, "intermediate", keys[1].t + 6>>}

C13_Witness == ExampleBurst /\ <<3, "intermediate", keys[1].t + 6>> \in KeyShots

C15_ClosedOnlyWhenIdle ==
  key_end.by = "tick" =>
    /\ key_end.start # None
    /\ Len(key_end.shots) >= 1
    /\ key_end.t - key_end.last_event > key_activity_timeout

\* C16: a key session that has retained a screenshot is never replaced or cleared
\* by a key event: only the tick's expiry check ends it.
C16_OnlyTickEndsSession == key_end.by # "key"

\* ------------------------------------------------------------ claims: click/scroll pipeline
\* Events stored in the slot whose flush has neither emitted nor given up.
Outstanding == {e \in EventIds : events[e].pc \in {"grab_after", "save_before", "save_after"}}

\* C5: from the moment an event is stored in the pending-event slot until its
\* Update is emitted and the slot cleared, no other click or scroll is stored in
\* the slot or flushed: at most one event is outstanding, and it is the one in
\* the slot.
C5_OneEventAtATime ==
  /\ Cardinality(Outstanding) <= 1
  /\ \A e \in Outstanding : pending_event = e

\* Scroll events whose magnitude is below 1.0.
SmallScrolls ==
  {e \in EventIds : events[e].type = "scroll" /\
     events[e].scroll[1] * events[e].scroll[1] + events[e].scroll[2] * events[e].scroll[2]
       < SCROLL_MIN_MAGNITUDE * SCROLL_MIN_MAGNITUDE}

\* C10: a scroll sample of magnitude < 1.0 never becomes the pending event and
\* never produces an Update, whatever the session filter said of it.
C10_SmallScrollDropped ==
  \A e \in SmallScrolls :
    /\ pending_event # e
    /\ events[e].pc \in {"filtered", "too_small"}
    /\ \A i \in 1..Len(screen_updates) : screen_updates[i] # e

\* A scroll with delta (0.3, 0.4) that the filter accepted as the first sample of a
\* new session, with a frame cached and no guarded window visible, and was dropped.
C10_Witness ==
  \E e \in SmallScrolls :
    /\ events[e].scroll = <<3, 4>>
    /\ events[e].rule = 1
    /\ events[e].pc = "too_small"
    /\ frames[events[e].mon]
    /\ ~guard_visible


\* ------------------------------------------------------------ claims: handler body
\* The handler ran and returned: its Observation was added and flushed.
Handled == h_call.outcome = "returned"

\* The Observation the last call added.
Stored == h_added[1]

\* The app name an Update with no usable app_name resolves to, and the URL the
\* inspector has for an app.
InspectorUrlFor(app) ==
  IF app = PyNone \/ app = "" THEN PyNone
  ELSE IF app = h_call.insp.front THEN h_call.insp.front_url
  ELSE h_call.insp.other_url

\* C17 as stated: a field that is not None on the Update is stored unchanged
\* whatever the inspector would return, and when both fields are not None the
\* inspector is not called.
C17_PresentFieldsKept ==
  (Handled /\ h_added # <<>>) =>
    /\ (h_call.update.app_name # PyNone
          => Stored.app_name = h_call.update.app_name)
    /\ (h_call.update.browser_url # PyNone
          => Stored.browser_url = h_call.update.browser_url)
    /\ (h_call.update.app_name # PyNone /\ h_call.update.browser_url # PyNone
          => h_call.calls = <<>>)

\* C17 amended: a non-empty app_name and a browser_url that is not None are stored
\* unchanged whatever the inspector would return, and when the Update has both
\* the inspector is not called.
C17_NonEmptyFieldsKept ==
  (Handled /\ h_added # <<>>) =>
    /\ (h_call.update.app_name \notin {PyNone, ""}
          => Stored.app_name = h_call.update.app_name)
    /\ (h_call.update.browser_url # PyNone
          => Stored.browser_url = h_call.update.browser_url)
    /\ (h_call.update.app_name \notin {PyNone, ""} /\ h_call.update.browser_url # PyNone
          => h_call.calls = <<>>)

C17_Witness ==
  /\ Handled
  /\ h_call.update.app_name = "Safari"
  /\ h_call.update.browser_url = "https://example.com"
  /\ h_call.insp.front = "Arc"
  /\ h_call.insp.other_url = "https://other.example"
  /\ Stored.app_name = "Safari"
  /\ Stored.browser_url = "https://example.com"
  /\ h_call.calls = <<>>

\* C18 as stated: handling an Update whose app_name is None makes exactly one
\* inspector call.
C18_ExactlyOneInspectorCall ==
  (h_call.outcome # "none" /\ h_call.update.app_name = PyNone)
    => Len(h_call.calls) = 1

\* C18 amended: handling an Update with no app_name (None or empty) asks the
\* inspector for the frontmost app exactly once, and then for the browser URL of
\* that app exactly once when the app name it got is non-empty and the Update has
\* no browser_url; it makes no other inspector call.
C18_OneFrontmostLookup ==
  (h_call.outcome # "none" /\ h_call.update.app_name \in {PyNone, ""})
    => h_call.calls =
         <<[fn |-> "get_frontmost_app_name", arg |-> PyNone]>>
         \o (IF h_call.insp.front \notin {PyNone, ""}
                /\ h_call.update.browser_url = PyNone
             THEN <<[fn |-> "get_browser_url", arg |-> h_call.insp.front]>>
             ELSE <<>>)

C18_Witness ==
  /\ h_call.outcome # "none"
  /\ h_call.update.app_name = PyNone
  /\ h_call.update.browser_url = PyNone
  /\ h_call.insp.front = "Arc"
  /\ Len(h_call.calls) = 2
  /\ h_call.calls[2].arg = "Arc"

\* C19: every handled Update adds exactly one Observation, whose observer name,
\* content and content_type are the Update's and whose app_name and browser_url
\* are the resolved values; for an Update carrying neither these are the
\* inspector's frontmost app name and the inspector's URL for that app.
C19_OneObservationAsComputed ==
  Handled =>
    LET u == h_call.update
        app == IF u.app_name \in {PyNone, ""} THEN h_call.insp.front ELSE u.app_name
        url == IF u.browser_url = PyNone THEN InspectorUrlFor(app) ELSE u.browser_url
    IN /\ Len(h_added) = 1
       /\ h_store_len = h_call.before + 1
       /\ Stored.observer_name = h_call.observer
       /\ Stored.content = u.content
       /\ Stored.content_type = u.content_type
       /\ Stored.app_name = app
       /\ Stored.browser_url = url
       /\ (u.app_name = PyNone /\ u.browser_url = PyNone
             => /\ Stored.app_name = h_call.insp.front
                /\ Stored.browser_url = InspectorUrlFor(h_call.insp.front))

C19_Witness ==
  /\ Handled
  /\ h_call.before = 1
  /\ h_store_len = 2
  /\ h_call.update.app_name = PyNone
  /\ h_call.update.browser_url = PyNone
  /\ h_call.update.content = "key_press"
  /\ h_call.insp.front = "Arc"
  /\ h_call.insp.front_url = "https://arc.net"
  /\ Stored.content = "key_press"
  /\ Stored.content_type = "input_text"
  /\ Stored.app_name = "Arc"
  /\ Stored.browser_url = "https://arc.net"


\* ------------------------------------------------------------ claims: failing handlers
\* Some handler body has failed and its task has ended with the exception.
SomeFailed == \E v \in UpdateIds : h_state[v] = "failed"

\* The fan-in loop was cancelled by the shutdown.
LoopCancelled == cancel_requested \/ aexit # "no"

\* C20: a failing handler body cannot halt the engine or other handlers.  Once a
\* handler has failed: no permit is missing from the semaphore; every handling
\* task in flight or spawned later still completes; an Update the current
\* iteration of the fan-in loop has dequeued still gets its task unless shutdown
\* cancels the loop; and a shutdown that has begun runs to its end and never
\* raises, whether the failed task was among the gathered ones or not.
C20_FailureDoesNotHaltEngine ==
  /\ [](SomeFailed => sem_value + Cardinality(PermitHolders) = max_concurrent_updates)
  /\ \A u \in UpdateIds :
       (SomeFailed /\ h_state[u] # "none") ~> (h_state[u] \in {"done", "failed"})
  /\ \A u \in UpdateIds :
       (SomeFailed /\ <<upd_src[u], round, u>> \in got) ~> (spawned[u] > 0 \/ LoopCancelled)
  /\ [](aexit # "raised")
  /\ (SomeFailed /\ aexit # "no") ~> (aexit = "exited")

\* Shutdown gathered a task that then failed and another that completed, and ended.
C20_Witness ==
  /\ aexit = "exited"
  /\ \E v \in gathered : h_state[v] = "failed"
  /\ \E u \in gathered : h_state[u] = "done"
  /\ sem_value = max_concurrent_updates


\* ------------------------------------------------------------ claims: shutdown
\* The observers in registration order.
Registered == [i \in 1..NumObservers |-> i]

\* C21: shutdown order.  stop_update_loop returns only after the cancelled loop
\* task has ended; the handling tasks still running at that moment are then
\* awaited; an observer is stopped only after all of them have finished, and the
\* observers are stopped one by one in registration order, each exactly once.
C21_ShutdownOrder ==
  /\ [][(aexit = "await_loop" /\ aexit' # "await_loop")
          => (loop_task = "cancelled" /\ ~cancel_requested /\ gathered' = Tasks)]_vars
  /\ [][(stopped' # stopped)
          => /\ aexit = "stop_observers"
             /\ \A u \in gathered : h_state[u] \in {"done", "failed"}
             /\ Len(stopped) < NumObservers
             /\ stopped' = Append(stopped, Registered[Len(stopped) + 1])]_vars
  /\ [](aexit = "exited" => stopped = Registered)
  /\ [](aexit \in {"no", "await_loop", "gather"} => stopped = <<>>)

\* Shutdown cancelled a started loop, awaited a handling task that was still
\* running, and then stopped every observer.
C21_Witness ==
  /\ aexit = "exited"
  /\ stopped = Registered
  /\ loop_task = "none"
  /\ gathered # {}
  /\ \A u \in gathered : h_state[u] \in {"done", "failed"}


\* ------------------------------------------------------------ claims: startup
\* The priming failed: the inspector lacks the operation, or the operation raised.
PrimingFailed == ~aenter.has_prime \/ aenter.prime # "returns"

\* C22: __aenter__ connects the store, then primes the inspector, then starts the
\* fan-in loop, and a priming that fails (it raises, or the inspector lacks the
\* operation) does not prevent the loop from being started.
C22_PrimingFailureStillStartsLoop ==
  (aenter.called /\ aenter.db_ok) =>
    /\ aenter.steps[1] = "connect_db"
    /\ PrimingFailed =>
         /\ aenter.steps[Len(aenter.steps)] = "start_update_loop"
         /\ aenter.outcome = "entered"
         /\ loop_task # "none"


\* ------------------------------------------------------------ claims: lifecycle
\* C23: a second stop() of a Screen observer returns without error and changes
\* nothing; a second start creates nothing: the fan-in loop has at most one task
\* and a backend at most one running listener.
C23_SecondStopAndStartAreNoOps ==
  /\ (screen_stop.calls >= 2 /\ \A b \in Backends : ~backends[b].listener)
       => (screen_stop.outcome = "returned" /\ ~screen_stop.changed)
  /\ \A b \in Backends : backends[b].running <= 1
  /\ Cardinality({i \in 1..Len(runq) : runq[i] = LoopTask}) <= 1


\* ------------------------------------------------------------ claims: clicks and scrolls
\* The clicks and scrolls that arrived.
Arrived == {e \in EventIds : events[e].type # "none"}

\* The event was stored in the pending-event slot.
WasPending(e) ==
  events[e].pc \in {"grab_after", "grab_failed", "save_before", "save_after", "save_failed",
                    "emitted"}

Emitted(e) == \E i \in 1..Len(screen_updates) : screen_updates[i] = e

\* The point lies in the rectangle of monitor m.
Inside(m, p) ==
  /\ Mons[m].left <= p[1] /\ p[1] < Mons[m].left + Mons[m].width
  /\ Mons[m].top <= p[2] /\ p[2] < Mons[m].top + Mons[m].height

Outside(p) == \A m \in MonIds : ~Inside(m, p)

\* C24: a click or scroll on a monitor for which no frame is cached creates no
\* pending event and emits no Update.  (A cached frame is never dropped while the
\* capture loop runs, so a monitor without a frame had none when the event came.)
C24_NoFrameNoEvent ==
  \A e \in Arrived :
    ~frames[events[e].mon] => (pending_event # e /\ ~WasPending(e) /\ ~Emitted(e))

\* A click on monitor 2, which has no frame yet while monitor 1 has one, with no
\* guarded window visible, was dropped.
C24_Witness ==
  \E e \in Arrived :
    /\ events[e].type = "click"
    /\ events[e].mon = 2
    /\ events[e].pc = "no_frame"
    /\ frames[1] /\ ~frames[2]
    /\ ~guard_visible
    /\ pending_event # e

\* C25: the monitor index of a click or scroll is the index of the first monitor
\* rectangle that contains its point, and 1 when none does; its coordinates are
\* local to that monitor; and an event on no monitor goes on like any other.
C25_FirstMonitorElseOne ==
  \A e \in Arrived :
    LET p == events[e].point
        idx == events[e].mon
    IN /\ idx \in MonIds
       /\ Outside(p) => idx = 1
       /\ ~Outside(p) => (Inside(idx, p) /\ \A k \in MonIds : k < idx => ~Inside(k, p))
       /\ events[e].position = <<p[1] - Mons[idx].left, p[2] - Mons[idx].top>>

\* A click at (500, 50), outside both monitors, was given monitor 1 and local
\* coordinates (500, 50), and its Update was emitted.
C25_Witness ==
  \E e \in Arrived :
    /\ events[e].point = <<500, 50>>
    /\ events[e].mon = 1
    /\ events[e].position = <<500, 50>>
    /\ events[e].pc = "emitted"
    /\ Emitted(e)

\* C26 as stated: a click or scroll whose point lies outside every monitor
\* rectangle creates no pending event and emits no Update.
C26_OutsideDropped ==
  \A e \in Arrived :
    Outside(events[e].point) => (pending_event # e /\ ~WasPending(e) /\ ~Emitted(e))

\* C26 amended: a click or scroll outside every monitor rectangle is not dropped
\* for that reason.  It is handled as an event on monitor 1: when it arrives with
\* a frame cached for monitor 1 and no guarded window visible, and (a scroll) it
\* passed the scroll filters, it becomes the pending event; with no frame cached
\* for monitor 1 it is dropped.
C26_OutsideHandledOnMonitorOne ==
  [][\A e \in EventIds :
       (events[e].type = "none" /\ events'[e].type # "none" /\ Outside(events'[e].point))
         => /\ events'[e].mon = 1
            /\ (frames[1] /\ ~guard_visible /\ events'[e].pc \notin {"filtered", "too_small"})
                 => (pending_event' = e /\ events'[e].pc = "grab_after")
            /\ ~frames[1] => (pending_event' # e /\ ~WasPending(e)')]_vars

\* A click outside both monitors is in the pending-event slot.
C26_Witness ==
  \E e \in Arrived :
    /\ Outside(events[e].point)
    /\ events[e].mon = 1
    /\ pending_event = e
    /\ events[e].pc = "grab_after"


\* ------------------------------------------------------------ claims: capture loop
\* The capture loop is past the grabs of the current tick.
GrabsOver == worker \in {"check", "lock_wait", "final_save", "sleep"}

\* C27: a failed grab for one monitor is skipped for that tick only.  The failing
\* step leaves every cached frame as it was; the grabs of the tick go on, so that
\* when they are over every monitor has been tried and every monitor whose grab
\* succeeded has a frame; the grabs are followed by the key-session expiry check,
\* and the check by the sleep and the next tick, in which every monitor is tried
\* again.
C27_FailedGrabSkippedForTickOnly ==
  /\ [][\A m \in MonIds :
          (tick_grabs[m] = "none" /\ tick_grabs'[m] = "failed") => frames' = frames]_vars
  /\ [](GrabsOver =>
          \A m \in MonIds : tick_grabs[m] # "none" /\ (tick_grabs[m] = "ok" => frames[m]))
  /\ [][(worker = "grab" /\ worker' # "grab") => worker' = "check"]_vars
  /\ [][(worker = "check" /\ worker' # "check")
          => worker' \in {"sleep", "lock_wait", "final_save"}]_vars
  /\ [][(worker = "sleep" /\ worker' # "sleep")
          => (worker' = "grab" /\ worker_idx' = 1 /\ \A m \in MonIds : tick_grabs'[m] = "none")]_vars

\* In one tick the grab of monitor 1 failed and the grab of monitor 2 succeeded;
\* monitor 1 still has the frame of an earlier tick, and the loop is at its sleep.
C27_Witness ==
  /\ worker = "sleep"
  /\ tick_grabs[1] = "failed"
  /\ tick_grabs[2] = "ok"
  /\ frames[1]
  /\ frames[2]

\* ------------------------------------------------------------ macOS inspector: specifications
InspectorNext ==
  \/ \E app_name \in Apps, scripts \in ScriptOutcomes, ax \in AccessibilityUrls :
       MacOS_get_browser_url(app_name, scripts, ax)
  \/ cache_expires

InspectorSpec == ShutdownInit /\ [][InspectorNext]_vars

PermissionNext ==
  \/ \E force_refresh \in BOOLEAN, running \in RunningLists :
       check_automation_permission_granted(force_refresh, running)
  \/ cache_expires

PermissionSpec == ShutdownInit /\ [][PermissionNext]_vars

\* _run_browser_scripts with up to MaxScripts candidate scripts, called twice.
ScriptsNext == \E runs \in RunLists(MaxScripts) : MacOS_run_browser_scripts(runs)

ScriptsSpec == ShutdownInit /\ [][ScriptsNext]_vars

\* ------------------------------------------------------------ C28
KnownBrowserCall == url_call.called /\ resolve_browser_key(url_call.app) # PyNone

FromScripts == url_call.scripts = "url"
FromAccessibility == ~FromScripts /\ url_call.ax \notin {PyNone, ""}

\* C28: get_browser_url for a known browser returns the scripts' URL when they
\* yield one; otherwise the non-empty URL read through the accessibility API;
\* otherwise the URL last cached for the browser key (None when nothing is
\* cached); and a URL from scripts or accessibility replaces the cached one.
C28_ScriptsThenAccessibilityThenCache ==
  KnownBrowserCall =>
    LET key == resolve_browser_key(url_call.app) IN
    /\ FromScripts => url_call.result = ScriptUrl
    /\ FromAccessibility => url_call.result = url_call.ax
    /\ (~FromScripts /\ ~FromAccessibility) => url_call.result = url_call.cached
    /\ (FromScripts \/ FromAccessibility) => last_browser_urls[key] = url_call.result
    /\ (~FromScripts /\ ~FromAccessibility) => last_browser_urls[key] = url_call.cached

\* A call fell back to accessibility although another URL was cached, and the
\* accessibility URL replaced it.
C28_Witness ==
  /\ KnownBrowserCall
  /\ FromAccessibility
  /\ url_call.cached = ScriptUrl
  /\ url_call.result = "https://ax.example"
  /\ last_browser_urls[resolve_browser_key(url_call.app)] = "https://ax.example"

\* ------------------------------------------------------------ C29
RECURSIVE AllOutcomes(_)
AllOutcomes(running) ==
  IF running = <<>> THEN {} ELSE {Head(running).outcome} \cup AllOutcomes(Tail(running))

\* The documented result for a set of running browsers, whatever their order.
DocumentedPermission(running) ==
  IF "url" \in AllOutcomes(running) THEN "True"
  ELSE IF AllOutcomes(running) = {"denied"} THEN "False"
  ELSE PyNone

\* C29: when no valid cached value is used, check_automation_permission_granted
\* returns True when at least one running browser allows automation, False when
\* all of them deny it, and None when none is running or the results are mixed,
\* whatever the order of probing.
C29_PermissionIndependentOfOrder ==
  (perm_call.called /\ ~perm_call.cache_hit) =>
    perm_call.result = DocumentedPermission(perm_call.running)

\* ------------------------------------------------------------ C30
\* A key event is suspended in its _save_frame; the capture loop is suspended in
\* the _save_frame of the final screenshot.
KeyAtSave(k) == keys[k].pc \in {"save_first", "save_inter"}
LoopAtSave == worker = "final_save"

\* C30: no lock of the Screen observer is held across a suspending call: no
\* task awaits an image save while it holds _key_activity_lock.
C30_NoLockHeldAcrossSave ==
  /\ \A k \in KeyIds : KeyAtSave(k) => key_lock # k
  /\ LoopAtSave => key_lock # LoopHolder

\* ------------------------------------------------------------ C37
\* debounce_sec > 0 and debounce_sec x max_frequency >= 1, in ticks.
DebounceBoundsFrequency ==
  /\ scroll_debounce_sec > 0
  /\ scroll_debounce_sec * scroll_max_frequency >= TicksPerSecond

\* C37: with debounce_sec > 0 and debounce_sec x max_frequency >= 1 the
\* frequency rule never rejects: a sample that passes the new-session, debounce
\* and distance rules is accepted.
C37_FrequencyRuleNeverRejects ==
  DebounceBoundsFrequency => scroll_call.rule # 4

\* A sample reached the frequency rule at exactly the maximum frequency (every
\* counted sample of the session came one debounce after the one before) and
\* was accepted.
C37_Witness ==
  /\ DebounceBoundsFrequency
  /\ scroll_call.rule = 5
  /\ scroll_call.count + 1 >= 2
  /\ (scroll_call.count + 1) * TicksPerSecond
       = scroll_max_frequency * (scroll_call.t - scroll_call.start)

\* ------------------------------------------------------------ C38
\* Scroll event e passed the session filter and was dropped by a later check of
\* scroll_event: magnitude, guard, or no cached frame.
DroppedAfterFilter(e) ==
  /\ events[e].type = "scroll"
  /\ events[e].rule \in {1, 5}
  /\ events[e].pc \in {"too_small", "skipped", "no_frame"}

\* Scroll event f arrives in this step.
ScrollArrives(f) == events[f].type = "none" /\ events'[f].type = "scroll"

\* C38: a scroll sample that the filter accepts and a later check drops has
\* already updated the scroll session: the next sample, within debounce_sec of
\* it, is rejected by the debounce rule although the first one gave no Update.
C38_DroppedSampleStillDebounces ==
  [][\A f \in EventIds \ {1} :
       (/\ ScrollArrives(f)
        /\ DroppedAfterFilter(f - 1)
        /\ now' - scroll_call.t < scroll_debounce_sec)
       => /\ scroll_last_time = scroll_call.t
          /\ events'[f].pc = "filtered"
          /\ events'[f].rule = 2
          /\ \A i \in 1..Len(screen_updates') : screen_updates'[i] # f - 1]_vars

\* A scroll too small to be logged opened a session, and the next scroll, 0.3 s
\* later, was debounced; neither gave an Update.
C38_Witness ==
  /\ DroppedAfterFilter(1)
  /\ events[1].pc = "too_small"
  /\ events[2].type = "scroll"
  /\ events[2].pc = "filtered"
  /\ events[2].rule = 2
  /\ scroll_call.t - scroll_call.last < scroll_debounce_sec
  /\ screen_updates = <<>>

\* ------------------------------------------------------------ C39
\* The Updates of clicks and scrolls, and of keys, emitted so far.
ScreenEmitted == {screen_updates[i] : i \in 1..Len(screen_updates)}
KeyEmitted == {key_updates[i] : i \in 1..Len(key_updates)}

ClickOrScrollArrivedGuarded(e) == events[e].type # "none" /\ events[e].guard
KeyArrivedGuarded(k) == keys[k].pc # "new" /\ keys[k].guard

StopOrder == <<"flush", "backends", "cleanup">>
IsPrefix(s, t) == Len(s) <= Len(t) /\ \A i \in 1..Len(s) : s[i] = t[i]

\* The steps of the exit come in the order flush, backends, cleanup; the
\* backends are stopped only after the flush has ended, however it ended; and
\* when the task has ended the backends are stopped and a cleanup that was due
\* has run.
StopInOrder ==
  /\ IsPrefix(stop_log, StopOrder)
  /\ Len(stop_log) >= 2 => stop_ev.outcome \in {"no_event", "skipped"} \cup FlushOutcomes
  /\ stop_ev.outcome = "emitted" => stop_ev.ev \in ScreenEmitted
  /\ worker = "stopped" =>
       /\ Len(stop_log) >= 2
       /\ \A b \in Backends : ~backends[b].listener
       /\ stop_ev.needed => stop_log = StopOrder /\ stop_ev.renamed # "none"

\* The cleanup step with more than one retained screenshot: the last file gets
\* its final name unless the rename fails, and the list is collapsed to its
\* first and last entry, the files of the others removed.
StopCleanupStep ==
  (worker = "stop_rename" /\ worker' = "stopped" /\ Len(key_screenshots) > 1) =>
    LET n == Len(key_screenshots)
        last == key_screenshots[n]
    IN /\ key_screenshots' = <<key_screenshots[1], last>>
       /\ \A i \in 2..(n - 1) : key_screenshots[i] \notin key_files'
       /\ stop_ev'.renamed = "ok" =>
            /\ [last EXCEPT !.tag = "final"] \in key_files'
            /\ last \notin key_files'

\* C31: when the capture loop stops, a still-pending event is flushed, then the
\* keyboard and mouse backends are stopped, then the final key-session cleanup
\* runs (rename of the last file, collapse of the list); the backends are
\* stopped and the cleanup runs even if the flush fails.
C31_FlushThenBackendsThenCleanup == []StopInOrder /\ [][StopCleanupStep]_vars

\* The stop-time flush of a pending click raised, and still the backends were
\* stopped and a session of three screenshots was renamed and collapsed.
C31_Witness ==
  /\ worker = "stopped"
  /\ stop_ev.ev = 1
  /\ stop_ev.outcome = "raised"
  /\ stop_log = StopOrder
  /\ stop_ev.renamed = "ok"
  /\ Len(stop_ev.before) = 3
  /\ \A b \in Backends : ~backends[b].listener

\* ------------------------------------------------------------ C32
ScriptsCalled == script_call.calls > 0

\* The run exits with code 0 and prints something other than nothing, 'null',
\* 'missing value' or 'undefined' in any case: of the outputs here, a URL.
IsUrlRun(run) ==
  /\ run.kind = "exit"
  /\ run.code = 0
  /\ run.stdout \in {"https://a.example", "https://b.example"}

\* The first candidate script whose run qualifies, or 0.
FirstQualifying(runs) ==
  IF \E i \in 1..Len(runs) : IsUrlRun(runs[i])
    THEN CHOOSE i \in 1..Len(runs) : IsUrlRun(runs[i]) /\ \A j \in 1..(i - 1) : ~IsUrlRun(runs[j])
    ELSE 0

\* C32 as stated: the result is the output of the first script that exits with
\* code 0 and a non-null output, no script is run after it, and None is returned
\* when no script qualifies.
C32_FirstQualifyingScriptWins ==
  ScriptsCalled =>
    LET i == FirstQualifying(script_call.runs) IN
      IF i = 0 THEN script_call.result = PyNone
      ELSE script_call.result = script_call.runs[i].stdout /\ script_call.ran = i

\* Script i ends the loop: it qualifies, it raises, or it is denied automation
\* with a failure not seen before by this inspector.
EndsLoop(i) ==
  LET run == script_call.runs[i] IN
    \/ IsUrlRun(run)
    \/ run.kind = "raises"
    \/ run.denied /\ <<"arc", i, run.code>> \notin script_call.before

FirstEnding ==
  IF \E i \in 1..Len(script_call.runs) : EndsLoop(i)
    THEN CHOOSE i \in 1..Len(script_call.runs) : EndsLoop(i) /\ \A j \in 1..(i - 1) : ~EndsLoop(j)
    ELSE 0

\* C32, amended: the scripts run in their listed order up to the first that
\* qualifies, raises, or is denied automation for the first time; the result is
\* that script's output when it qualifies and None otherwise, also None when no
\* script ends the loop.
C32_FirstQualifyingUnlessDeniedOrRaised ==
  ScriptsCalled =>
    LET i == FirstEnding IN
      IF i = 0
        THEN script_call.result = PyNone /\ script_call.ran = Len(script_call.runs)
      ELSE /\ script_call.ran = i
           /\ script_call.result = IF IsUrlRun(script_call.runs[i])
                                     THEN script_call.runs[i].stdout ELSE PyNone

\* 'Missing Value' and 'NULL' were skipped and the third script's URL returned.
C32_Witness ==
  /\ ScriptsCalled
  /\ Len(script_call.runs) = 3
  /\ script_call.runs[1].code = 0 /\ script_call.runs[1].stdout = "Missing Value"
  /\ script_call.runs[2].code = 0 /\ script_call.runs[2].stdout = "NULL"
  /\ script_call.result = "https://a.example"
  /\ script_call.ran = 3

\* ------------------------------------------------------------ claim C36
\* C36: each click or scroll event accepted into the pending-event slot results
\* in at most one Update: no event occurs twice among the Updates the Screen
\* observer has put, also when the capture loop exits and runs its stop-time
\* flush while the event's own flush still waits for its after-frame or saves.
C36_AtMostOneUpdatePerEvent ==
  \A i, j \in 1..Len(screen_updates) :
    screen_updates[i] = screen_updates[j] => i = j

\* ------------------------------------------------------------ claim C33
\* C33: the capture loop closes a key session only if the session is still the
\* one its expiry check found expired: the session a tick closes started more
\* than the timeout before the clock reading of that tick's check, so a session
\* a key event opened after the check is never closed by that tick.
C33_TickClosesTheSessionItFoundExpired ==
  key_end.by = "tick" => key_end.t - key_end.start > key_activity_timeout

\* ------------------------------------------------------------ claim C34
\* C34: engine shutdown survives a fan-in loop task that has already ended with
\* an error (an engine with no observers, whose first asyncio.wait fails):
\* stop_update_loop does not raise, and __aexit__ goes on to its gather or to
\* its observer-stopping step.
C34_ShutdownSurvivesFailedLoop ==
  (loop_task = "failed" /\ aexit # "no") => aexit \in {"gather", "stop_observers", "exited"}

\* ------------------------------------------------------------ claim C35
\* Shutdown has cancelled the fan-in loop, and the loop was not started again.
LoopStaysCancelled ==
  \/ cancel_requested
  \/ loop_task = "cancelled"
  \/ loop_task = "none" /\ aexit # "no"

\* No Update leaves an observer queue in this step.
NoDequeue == \A o \in Observers : Len(update_queue'[o]) >= Len(update_queue[o])

\* No handling task is created in this step, and an Update that has none stays
\* unhandled.
NoHandling ==
  \A u \in UpdateIds :
    /\ spawned'[u] = spawned[u]
    /\ h_state[u] = "none" => h_state'[u] = "none"

\* C35, as stated: once shutdown has cancelled the fan-in loop no Update is
\* dequeued any more, and none is handed to a handler.
C35_NothingDequeuedAfterCancel == [][LoopStaysCancelled => (NoDequeue /\ NoHandling)]_vars

\* C35, amended: once shutdown has cancelled the fan-in loop no handling task is
\* created: an Update emitted afterwards or still queued is never handled (a
\* get() task the loop left behind may still take it off its queue).
C35_NothingHandledAfterCancel == [][LoopStaysCancelled => NoHandling]_vars

\* Shutdown has ended with both observers stopped; one Update was handled, the
\* other was taken off its queue by a left-over get() and never handled.
C35_Witness ==
  /\ aexit = "exited"
  /\ LoopStaysCancelled
  /\ \E u, v \in UpdateIds :
       /\ h_state[v] = "done"
       /\ upd_src[u] # 0 /\ spawned[u] = 0 /\ h_state[u] = "none"
       /\ \E g \in got : g[3] = u

\* ------------------------------------------------------------ claim C40
\* C40: BackgroundRecorder runs at most one recorder thread at a time,
\* is_running() is true whenever a recorder thread is alive, and an exiting
\* thread never resets the loop, stop event, running flag or screen while the
\* class holds the thread of another recording.
C40_OneThreadAndRunningFlag ==
  /\ Cardinality({i \in RecordingIds : Alive(i)}) <= 1
  /\ (\E i \in RecordingIds : Alive(i)) => cls_running
  /\ \A i \in RecordingIds : ~rec_threads[i].clobbered

====
